---- MODULE Spec2Model ----
(***************************************************************************)
(* A model of the BLE acquisition program: the frame decoder               *)
(* (BLEDataHandler, BLEScanner.decodeData), the listener registry          *)
(* (BLEEventManager), the discovery cache and poll loop (BLEDiscovery),    *)
(* the adapter connection (BLEConnection) and the scanner's cleanup.       *)
(* Each component has its own specification over the shared variables.     *)
(***************************************************************************)
EXTENDS Integers, Sequences, FiniteSets, TLC

VARIABLES
    \* FrameCodec (pure decode applied to a chosen buffer)
    cBuf, cOut,
    \* BLEDataHandler
    lastProcessedData, dhBuffer, dhPrevBuffer, dhCalls, dhEmitted, dhWrites, dhOutcome,
    \* BLEEventManager: the manager's fields, and the callbacks attached to each source
    em, listenersOn,
    \* the manager's own EventEmitter listeners (event names that have one), and the
    \* last notification a source delivered to a wrapped callback
    emOwnListeners, emDelivery,
    \* BLEDiscovery: the object's fields, the async calls in progress (one stack of
    \* frames per task), the detached poll loops, the events of the last step, the
    \* result of the last call that returned to the environment, counters of events
    disc, tasks, loops, dEmitted, lastReturn, hist,
    \* BLEConnection and BLEScanner: the objects' fields; the Bluetooth handles
    \* made by createBluetooth, each with the number of calls of its destroy
    conn, scan, bt,
    \* the clock (ms), the local time zone's offset from UTC (ms), and per
    \* specification: the last instant explored and the calls the environment may
    \* still make; and what each device in range broadcasts (name, signal strength)
    now, tzOffset, horizon, callsLeft, radio

codecVars == <<cBuf, cOut>>
dhVars == <<lastProcessedData, dhBuffer, dhPrevBuffer, dhCalls, dhEmitted, dhWrites, dhOutcome>>
emVars == <<em, listenersOn, emOwnListeners, emDelivery>>
discVars == <<disc, tasks, loops, dEmitted, lastReturn, hist>>
scanVars == <<conn, scan, bt>>
envVars == <<now, tzOffset, horizon, callsLeft, radio>>
vars == <<codecVars, dhVars, emVars, discVars, scanVars, envVars>>

(***************************************************************************)
(* Bounds of the model                                                     *)
(***************************************************************************)
\* number of handleIncomingData calls the history variables distinguish
MaxHandled == 2
\* handle objects per device address / characteristic uuid (adapter.getDevice and
\* service.getCharacteristic hand out a new object for the same identity)
MaxHandles == 2
\* wrapped callbacks alive at once
MaxWrappers == 3
\* async calls in progress at once
MaxTasks == 2
\* poll loops alive at once
MaxLoops == 2
\* calls the environment makes on BLEDiscovery in one run: with the clock standing
\* still, and with the clock running
MaxCalls == 4
TimedCalls == 2
\* calls the environment makes on BLEScanner in one run
ScanCalls == 3
StartScanCalls == 2
\* the clock's sub-second step (ms)
TickMs == 500
\* the clock runs over this many cache lifetimes (MAX_AGE)
CacheEpochs == 3
\* calls made on a BLEConnection, one after the other
ConnCalls == 3
\* findDevice calls, one after the other, and the turns of the search loop before
\* the timeout is certain
FindCalls == 2
\* autoConnectToTarget calls on a BLEScanner
AutoCalls == 1
\* connectAndSetup and disconnect calls on a BLEScanner, one after the other
LinkCalls == 4
\* calls and 'disconnect' notifications of the reconnect specification, and the
\* half RETRY_DELAY steps its clock makes
ReconnectCalls == 3
\* calls and buffer notifications of the notification specification
NotifyCalls == 3
ReconnectHalves == 5
SearchRounds == 1

(***************************************************************************)
(* Buffers                                                                 *)
(***************************************************************************)
Byte == 0..255
\* byte values at the edges of the 8-bit and 16-bit ranges
ByteVals == {0, 1, 127, 128, 255}
FillVals == {0, 255}
FrameLen == 20

Fill(n, b) == [i \in 1..n |-> b]

\* a 20-byte frame that is `fill` everywhere but in the byte pair at offset 2*f
FrameWithPair(f, b0, b1, fill) ==
    [i \in 1..FrameLen |-> IF i = 2 * f + 1 THEN b0 ELSE IF i = 2 * f + 2 THEN b1 ELSE fill]

CodecBuffers ==
    {FrameWithPair(f, b0, b1, fill) : f \in 0..9, b0 \in ByteVals, b1 \in ByteVals, fill \in FillVals}

\* the frames of __tests__/bluetooth/BLEDataHandler.test.js and their neighbours
SeqBytes == {0, 1, 2, 3, 255}
\* the frame of the test 'dovrebbe decodificare correttamente i dati validi'
ValidTestFrame == <<0, 1, 0, 2, 0, 3, 0, 4, 0, 5, 0, 6, 0, 7, 0, 8, 0, 9, 0, 10>>
\* the frame of the test 'dovrebbe gestire valori fuori range'
OutOfRangeTestFrame == <<255, 255, 128, 0, 127, 255, 128, 1>> \o Fill(12, 0)
HandlerFrames ==
    {FrameWithPair(0, hi, lo, 0) : hi \in {0, 255}, lo \in SeqBytes}
        \cup {ValidTestFrame, OutOfRangeTestFrame}
BadLengthBuffers == {Fill(0, 0), <<0, 1>>, Fill(1, 0), Fill(19, 0), Fill(21, 0)}
HandlerBuffers == HandlerFrames \cup BadLengthBuffers

(***************************************************************************)
(* DataView accessors                                                      *)
(***************************************************************************)
\* DataView.getUint16(offset, littleEndian) on the bytes of `buffer`
GetUint16(buffer, offset, littleEndian) ==
    IF littleEndian
    THEN buffer[offset + 1] + 256 * buffer[offset + 2]
    ELSE 256 * buffer[offset + 1] + buffer[offset + 2]

\* DataView.getInt16: the same 16 bits read as two's complement
GetInt16(buffer, offset, littleEndian) ==
    LET u == GetUint16(buffer, offset, littleEndian)
    IN  IF u >= 32768 THEN u - 65536 ELSE u

(***************************************************************************)
(* BLEDataHandler                                                          *)
(***************************************************************************)
NoData == [none |-> TRUE]

minBufferLength == 20

\* dataValidationRules.valueRanges
valueRanges ==
    [numero_progressivo |-> [min |-> 0, max |-> 65535],
     asse_x |-> [min |-> -32768, max |-> 32767],
     asse_y |-> [min |-> -32768, max |-> 32767],
     asse_z |-> [min |-> -32768, max |-> 32767],
     pressione_tallone |-> [min |-> 0, max |-> 65535],
     pressione_primo_metatarso |-> [min |-> 0, max |-> 65535],
     pressione_quinto_metatarso |-> [min |-> 0, max |-> 65535],
     segnale_uno |-> [min |-> 0, max |-> 65535],
     segnale_due |-> [min |-> 0, max |-> 65535]]

\* the methods class BLEStatistics defines
StatisticsMethods ==
    {"incrementDiscoveredDevices", "incrementDataCounter", "updateConnectionState",
     "setCurrentFile", "getStats", "reset", "_calculateUptime"}

\* the top-level keys of config/settings.js
SettingsKeys ==
    {"SCAN_DURATION", "LOG_LEVEL", "FILE_SETTINGS", "BLE_SETTINGS", "SESSION_SETTINGS",
     "TARGET_DEVICE", "SCAN_SETTINGS", "DISCOVERY", "DATA_FORMAT"}

\* validateBuffer: TRUE when it returns, FALSE when it throws a BLEError
validateBuffer(buffer) == Len(buffer) = minBufferLength

parseBufferLE(buffer) ==
    [numero_progressivo |-> GetUint16(buffer, 0, TRUE),
     asse_x |-> GetInt16(buffer, 2, TRUE),
     asse_y |-> GetInt16(buffer, 4, TRUE),
     asse_z |-> GetInt16(buffer, 6, TRUE),
     pressione_tallone |-> GetUint16(buffer, 8, TRUE),
     pressione_primo_metatarso |-> GetUint16(buffer, 10, TRUE),
     pressione_quinto_metatarso |-> GetUint16(buffer, 12, TRUE),
     segnale_uno |-> GetUint16(buffer, 14, TRUE),
     segnale_due |-> GetUint16(buffer, 16, TRUE)]

parseBuffer(buffer) ==
    [numero_progressivo |-> GetUint16(buffer, 0, FALSE),
     asse_x |-> GetInt16(buffer, 2, TRUE),
     asse_y |-> GetInt16(buffer, 4, TRUE),
     asse_z |-> GetInt16(buffer, 6, TRUE),
     pressione_tallone |-> GetUint16(buffer, 8, TRUE),
     pressione_primo_metatarso |-> GetUint16(buffer, 10, TRUE),
     pressione_quinto_metatarso |-> GetUint16(buffer, 12, TRUE),
     segnale_uno |-> GetUint16(buffer, 14, TRUE),
     segnale_due |-> GetUint16(buffer, 16, TRUE)]

\* validateDecodedData: TRUE when it returns, FALSE when it throws a BLEError
validateDecodedData(data) ==
    \A field \in DOMAIN valueRanges :
        ~(data[field] < valueRanges[field].min \/ data[field] > valueRanges[field].max)

\* checkSequence: the events it emits
checkSequence(currentData, last) ==
    IF last # NoData
    THEN LET expectedSequence == (last.numero_progressivo + 1) % 65536
         IN  IF currentData.numero_progressivo # expectedSequence
             THEN <<[name |-> "data:sequence_error",
                     expected |-> expectedSequence,
                     received |-> currentData.numero_progressivo]>>
             ELSE <<>>
    ELSE <<>>

\* updateStatistics: TRUE when it returns, FALSE when it throws a TypeError
\* (a call of a method the statistics object lacks, a read through a settings
\* key that is not there)
updateStatistics == "incrementCounter" \in StatisticsMethods /\ "DATA_ANALYSIS" \in SettingsKeys

\* handleDecodingError followed by decodeData's `throw error`: writeError is called,
\* then incrementErrorCount, whose TypeError replaces the error being handled
handleDecodingError(error, events, dataWrites, last) ==
    [threw |-> TRUE,
     error |-> IF "incrementErrorCount" \in StatisticsMethods THEN error ELSE "TypeError",
     value |-> NoData,
     events |-> events,
     dataWrites |-> dataWrites,
     errorWrites |-> 1,
     last |-> last]

\* decodeData: its outcome, the events emitted, the calls on the log sink and the
\* new lastProcessedData
decodeData(buffer, last) ==
    IF ~validateBuffer(buffer)
    THEN handleDecodingError("BLEError", <<>>, 0, last)
    ELSE LET decodedData == parseBuffer(buffer)
         IN  IF ~validateDecodedData(decodedData)
             THEN handleDecodingError("BLEError", <<>>, 0, last)
             ELSE LET seqEvents == checkSequence(decodedData, last)
                  IN  \* logData calls logger.writeData, then updateStatistics
                      IF ~updateStatistics
                      THEN handleDecodingError("TypeError", seqEvents, 1, last)
                      ELSE [threw |-> FALSE,
                            error |-> "none",
                            value |-> decodedData,
                            events |-> seqEvents,
                            dataWrites |-> 1,
                            errorWrites |-> 0,
                            last |-> decodedData]

\* handleIncomingData(buffer)
handleIncomingData(buffer) ==
    LET r == decodeData(buffer, lastProcessedData)
    IN  /\ dhPrevBuffer' = dhBuffer
        /\ dhBuffer' = buffer
        /\ dhCalls' = IF dhCalls < MaxHandled THEN dhCalls + 1 ELSE dhCalls
        /\ lastProcessedData' = r.last
        /\ dhWrites' = [data |-> r.dataWrites, error |-> r.errorWrites]
        /\ dhEmitted' =
              <<[name |-> "data:received"]>> \o r.events \o
              (IF r.threw
               THEN <<[name |-> "data:error", error |-> r.error]>>
               ELSE <<[name |-> "data:decoded", data |-> r.value]>>)
        /\ dhOutcome' =
              IF r.threw
              THEN [kind |-> "threw", error |-> r.error, value |-> NoData]
              ELSE [kind |-> "returned", error |-> "none", value |-> r.value]

HandleIncomingData ==
    /\ \E buffer \in HandlerBuffers : handleIncomingData(buffer)
    /\ UNCHANGED <<codecVars, emVars, discVars, scanVars, envVars>>

DHInit ==
    /\ lastProcessedData = NoData
    /\ dhBuffer = <<>>
    /\ dhPrevBuffer = <<>>
    /\ dhCalls = 0
    /\ dhEmitted = <<>>
    /\ dhWrites = [data |-> 0, error |-> 0]
    /\ dhOutcome = [kind |-> "none", error |-> "none", value |-> NoData]

(***************************************************************************)
(* FrameCodec: the decoders applied to a chosen 20-byte buffer             *)
(***************************************************************************)
\* the fields BLEScanner.decodeData reads through its DataView
scannerDecodeFields(buffer) ==
    [numero_progressivo |-> GetUint16(buffer, 0, FALSE),
     asse_x |-> GetInt16(buffer, 2, TRUE),
     asse_y |-> GetInt16(buffer, 4, TRUE),
     asse_z |-> GetInt16(buffer, 6, TRUE),
     pressione_tallone |-> GetUint16(buffer, 8, TRUE),
     pressione_primo_metatarso |-> GetUint16(buffer, 10, TRUE),
     pressione_quinto_metatarso |-> GetUint16(buffer, 12, TRUE),
     segnale_uno |-> GetUint16(buffer, 14, TRUE),
     segnale_due |-> GetUint16(buffer, 16, TRUE)]

CodecInit ==
    /\ cBuf \in CodecBuffers
    /\ cOut = NoData

CodecIdle ==
    /\ cBuf = Fill(FrameLen, 0)
    /\ cOut = NoData

\* parse the chosen buffer with both decoders
CodecDecode ==
    /\ cOut = NoData
    /\ validateBuffer(cBuf)
    /\ cOut' = [handler |-> parseBuffer(cBuf), scanner |-> scannerDecodeFields(cBuf)]
    /\ UNCHANGED <<cBuf, dhVars, emVars, discVars, scanVars, envVars>>

\* the next notification buffer
CodecNextBuffer ==
    /\ cOut # NoData
    /\ cBuf' \in CodecBuffers
    /\ cOut' = NoData
    /\ UNCHANGED <<dhVars, emVars, discVars, scanVars, envVars>>

(***************************************************************************)
(* BLEEventManager (the listener registry)                                 *)
(***************************************************************************)
Addresses == {"AA:AA", "BB:BB"}
Uuids == {"c1"}
DeviceEvents == {"disconnect", "connect"}
CharacteristicEvents == {"valuechanged"}
Callbacks == {"f", "g"}

\* device and characteristic objects: several objects may carry one identity
Devices == {[address |-> a, obj |-> n] : a \in Addresses, n \in 1..MaxHandles}
Characteristics == {[uuid |-> u, obj |-> n] : u \in Uuids, n \in 1..MaxHandles}

\* no injected failure of a source's on/removeListener
NoFaults == {FALSE}

generateListenerKey(id, eventName) == id \o "_" \o eventName

\* what a registered callback does when called: returns (or resolves), throws, or
\* returns a promise that rejects
CallbackOutcomes == {"returns", "throws", "rejects"}
NoDelivery == [none |-> TRUE]

\* EventEmitter.emit on the manager: 'error' without a listener throws
emEmit(own, eventName) ==
    [threw |-> eventName = "error" /\ "error" \notin own, emitted |-> <<eventName>>]

\* the async function createWrappedListener returns, called with a callback that
\* behaves as `outcome`: `await listener(...args)` turns a throw and a rejection
\* alike into the catch block, which logs and emits 'error'; whatever the catch
\* block throws rejects the promise the wrapper returned
wrappedListenerCall(own, outcome) ==
    IF outcome = "returns"
    THEN [threwSync |-> FALSE, promise |-> "fulfilled", emitted |-> <<>>, caught |-> FALSE]
    ELSE LET e == emEmit(own, "error")
         IN  [threwSync |-> FALSE,
              promise |-> IF e.threw THEN "rejected" ELSE "fulfilled",
              emitted |-> e.emitted,
              caught |-> TRUE]

EMInit ==
    /\ em = [deviceListeners |-> <<>>,
             characteristicListeners |-> <<>>,
             activeEvents |-> {},
             eventCounts |-> [device |-> 0, characteristic |-> 0, service |-> 0, total |-> 0]]
    /\ listenersOn = {}
    /\ emOwnListeners = {}
    /\ emDelivery = NoDelivery

\* the manager and the sources together, as the operations below transform them
World == [em |-> em, on |-> listenersOn]

WrapperIdsInUse(w) ==
    {a.fn.id : a \in w.on}
    \cup {w.em.deviceListeners[k].wrappedListener.id : k \in DOMAIN w.em.deviceListeners}
    \cup {w.em.characteristicListeners[k].wrappedListener.id :
            k \in DOMAIN w.em.characteristicListeners}

\* createWrappedListener: a new function object around the listener
createWrappedListener(w, listener) ==
    [id |-> CHOOSE n \in 1..(MaxWrappers + 1) :
                /\ n \notin WrapperIdsInUse(w)
                /\ \A m \in 1..(n - 1) : m \in WrapperIdsInUse(w),
     listener |-> listener]

CanWrap(w) == \E n \in 1..MaxWrappers : n \notin WrapperIdsInUse(w)

\* EventEmitter.on / EventEmitter.removeListener of one source object
SourceOn(on, source, eventName, fn) ==
    on \cup {[source |-> source, eventName |-> eventName, fn |-> fn]}
SourceRemoveListener(on, source, eventName, fn) ==
    on \ {[source |-> source, eventName |-> eventName, fn |-> fn]}

MapDelete(map, key) == [k \in DOMAIN map \ {key} |-> map[k]]
MapSet(map, key, value) == [k \in DOMAIN map \cup {key} |-> IF k = key THEN value ELSE map[k]]

updateEventCounts(counts, type, delta) ==
    [counts EXCEPT ![type] = @ + delta, !.total = @ + delta]

\* removeDeviceListener(device, eventName); removeFails: device.removeListener throws
removeDeviceListener(w, device, eventName, removeFails) ==
    LET key == generateListenerKey(device.address, eventName)
    IN  IF key \in DOMAIN w.em.deviceListeners
        THEN IF removeFails
             THEN w
             ELSE [em |-> [w.em EXCEPT
                             !.deviceListeners = MapDelete(@, key),
                             !.eventCounts = updateEventCounts(@, "device", -1),
                             !.activeEvents = @ \ {key}],
                   on |-> SourceRemoveListener(w.on, device, eventName,
                              w.em.deviceListeners[key].wrappedListener)]
        ELSE w

\* addDeviceListener(device, eventName, listener); onFails: device.on throws
addDeviceListener(w, device, eventName, listener, removeFails, onFails) ==
    LET key == generateListenerKey(device.address, eventName)
        w1 == removeDeviceListener(w, device, eventName, removeFails)
        wrappedListener == createWrappedListener(w1, listener)
    IN  IF onFails
        THEN w1
        ELSE [em |-> [w1.em EXCEPT
                        !.deviceListeners =
                            MapSet(@, key, [device |-> device,
                                            eventName |-> eventName,
                                            originalListener |-> listener,
                                            wrappedListener |-> wrappedListener]),
                        !.eventCounts = updateEventCounts(@, "device", 1),
                        !.activeEvents = @ \cup {key}],
              on |-> SourceOn(w1.on, device, eventName, wrappedListener)]

removeCharacteristicListener(w, characteristic, eventName, removeFails) ==
    LET key == generateListenerKey(characteristic.uuid, eventName)
    IN  IF key \in DOMAIN w.em.characteristicListeners
        THEN IF removeFails
             THEN w
             ELSE [em |-> [w.em EXCEPT
                             !.characteristicListeners = MapDelete(@, key),
                             !.eventCounts = updateEventCounts(@, "characteristic", -1),
                             !.activeEvents = @ \ {key}],
                   on |-> SourceRemoveListener(w.on, characteristic, eventName,
                              w.em.characteristicListeners[key].wrappedListener)]
        ELSE w

addCharacteristicListener(w, characteristic, eventName, listener, removeFails, onFails) ==
    LET key == generateListenerKey(characteristic.uuid, eventName)
        w1 == removeCharacteristicListener(w, characteristic, eventName, removeFails)
        wrappedListener == createWrappedListener(w1, listener)
    IN  IF onFails
        THEN w1
        ELSE [em |-> [w1.em EXCEPT
                        !.characteristicListeners =
                            MapSet(@, key, [characteristic |-> characteristic,
                                            eventName |-> eventName,
                                            originalListener |-> listener,
                                            wrappedListener |-> wrappedListener]),
                        !.eventCounts = updateEventCounts(@, "characteristic", 1),
                        !.activeEvents = @ \cup {key}],
              on |-> SourceOn(w1.on, characteristic, eventName, wrappedListener)]

\* removeAllDeviceListeners(device); failing: the keys whose device.removeListener throws
removeAllDeviceListeners(w, device, failing) ==
    LET matching == {k \in DOMAIN w.em.deviceListeners :
                        w.em.deviceListeners[k].device.address = device.address}
        keysToRemove == matching \ failing
    IN  [em |-> [w.em EXCEPT
                   !.deviceListeners = [k \in DOMAIN @ \ keysToRemove |-> @[k]],
                   !.eventCounts =
                       [@ EXCEPT !.device = @ - Cardinality(keysToRemove),
                                 !.total = @ - Cardinality(keysToRemove)],
                   !.activeEvents = @ \ keysToRemove],
          on |-> w.on \ {[source |-> device,
                          eventName |-> w.em.deviceListeners[k].eventName,
                          fn |-> w.em.deviceListeners[k].wrappedListener] : k \in keysToRemove}]

removeAllCharacteristicListeners(w, characteristic, failing) ==
    LET matching == {k \in DOMAIN w.em.characteristicListeners :
                        w.em.characteristicListeners[k].characteristic.uuid = characteristic.uuid}
        keysToRemove == matching \ failing
    IN  [em |-> [w.em EXCEPT
                   !.characteristicListeners = [k \in DOMAIN @ \ keysToRemove |-> @[k]],
                   !.eventCounts =
                       [@ EXCEPT !.characteristic = @ - Cardinality(keysToRemove),
                                 !.total = @ - Cardinality(keysToRemove)],
                   !.activeEvents = @ \ keysToRemove],
          on |-> w.on \ {[source |-> characteristic,
                          eventName |-> w.em.characteristicListeners[k].eventName,
                          fn |-> w.em.characteristicListeners[k].wrappedListener] :
                            k \in keysToRemove}]

\* cleanup(); failing: the registrations whose removeListener throws
emCleanup(w, failing) ==
    [em |-> [deviceListeners |-> <<>>,
             characteristicListeners |-> <<>>,
             activeEvents |-> {},
             eventCounts |-> [device |-> 0, characteristic |-> 0, service |-> 0, total |-> 0]],
     on |-> w.on \
            ({[source |-> w.em.deviceListeners[k].device,
               eventName |-> w.em.deviceListeners[k].eventName,
               fn |-> w.em.deviceListeners[k].wrappedListener] :
                 k \in DOMAIN w.em.deviceListeners \ failing}
             \cup
             {[source |-> w.em.characteristicListeners[k].characteristic,
               eventName |-> w.em.characteristicListeners[k].eventName,
               fn |-> w.em.characteristicListeners[k].wrappedListener] :
                 k \in DOMAIN w.em.characteristicListeners \ failing})]

SetWorld(w) ==
    /\ em' = w.em
    /\ listenersOn' = w.on
    /\ UNCHANGED <<emOwnListeners, emDelivery>>
    /\ UNCHANGED <<codecVars, dhVars, discVars, scanVars, envVars>>

AddDeviceListener(device, eventName, listener) ==
    /\ CanWrap(World)
    /\ \E removeFails \in NoFaults, onFails \in NoFaults :
          SetWorld(addDeviceListener(World, device, eventName, listener, removeFails, onFails))

RemoveDeviceListener(device, eventName) ==
    \E removeFails \in NoFaults :
        SetWorld(removeDeviceListener(World, device, eventName, removeFails))

RemoveAllDeviceListeners(device) ==
    SetWorld(removeAllDeviceListeners(World, device, {}))

AddCharacteristicListener(characteristic, eventName, listener) ==
    /\ CanWrap(World)
    /\ \E removeFails \in NoFaults, onFails \in NoFaults :
          SetWorld(addCharacteristicListener(World, characteristic, eventName, listener,
                                             removeFails, onFails))

RemoveCharacteristicListener(characteristic, eventName) ==
    \E removeFails \in NoFaults :
        SetWorld(removeCharacteristicListener(World, characteristic, eventName, removeFails))

RemoveAllCharacteristicListeners(characteristic) ==
    SetWorld(removeAllCharacteristicListeners(World, characteristic, {}))

EmCleanup == SetWorld(emCleanup(World, {}))

\* the same calls with the sources' on / removeListener free to throw
Faults == BOOLEAN

AddDeviceListenerFaulty(device, eventName, listener) ==
    /\ CanWrap(World)
    /\ \E removeFails \in Faults, onFails \in Faults :
          SetWorld(addDeviceListener(World, device, eventName, listener, removeFails, onFails))

RemoveDeviceListenerFaulty(device, eventName) ==
    \E removeFails \in Faults :
        SetWorld(removeDeviceListener(World, device, eventName, removeFails))

RemoveAllDeviceListenersFaulty(device) ==
    \E failing \in SUBSET DOMAIN em.deviceListeners :
        SetWorld(removeAllDeviceListeners(World, device, failing))

AddCharacteristicListenerFaulty(characteristic, eventName, listener) ==
    /\ CanWrap(World)
    /\ \E removeFails \in Faults, onFails \in Faults :
          SetWorld(addCharacteristicListener(World, characteristic, eventName, listener,
                                             removeFails, onFails))

RemoveCharacteristicListenerFaulty(characteristic, eventName) ==
    \E removeFails \in Faults :
        SetWorld(removeCharacteristicListener(World, characteristic, eventName, removeFails))

RemoveAllCharacteristicListenersFaulty(characteristic) ==
    \E failing \in SUBSET DOMAIN em.characteristicListeners :
        SetWorld(removeAllCharacteristicListeners(World, characteristic, failing))

EmCleanupFaulty ==
    \E failing \in SUBSET (DOMAIN em.deviceListeners \cup DOMAIN em.characteristicListeners) :
        SetWorld(emCleanup(World, failing))

\* manager.on('error', ...) / manager.removeAllListeners('error') by the owner
EmOnError ==
    /\ emOwnListeners' = emOwnListeners \cup {"error"}
    /\ UNCHANGED <<em, listenersOn, emDelivery>>
    /\ UNCHANGED <<codecVars, dhVars, discVars, scanVars, envVars>>
EmOffError ==
    /\ emOwnListeners' = emOwnListeners \ {"error"}
    /\ UNCHANGED <<em, listenersOn, emDelivery>>
    /\ UNCHANGED <<codecVars, dhVars, discVars, scanVars, envVars>>

\* every (source, event, wrapper) a source may hold
Attachments ==
    [source : Devices, eventName : DeviceEvents,
     fn : [id : 1..MaxWrappers, listener : Callbacks]]
    \cup [source : Characteristics, eventName : CharacteristicEvents,
          fn : [id : 1..MaxWrappers, listener : Callbacks]]

\* a source emits an event: the wrapper attached for it is called, the source
\* receives what the wrapper returns
Notify(attached) ==
    /\ attached \in listenersOn
    /\ \E outcome \in CallbackOutcomes :
          emDelivery' = [outcome |-> outcome,
                         result |-> wrappedListenerCall(emOwnListeners, outcome)]
    /\ UNCHANGED <<em, listenersOn, emOwnListeners>>
    /\ UNCHANGED <<codecVars, dhVars, discVars, scanVars, envVars>>

(***************************************************************************)
(* BLEDiscovery: discovery with a polling loop and a device cache.         *)
(* An async method runs synchronously up to its first await; every await   *)
(* is a point where other tasks, loops and timers may run.  A task is a    *)
(* stack of frames, one per method that is suspended at an await.          *)
(***************************************************************************)
Null == [null |-> TRUE]

MAX_AGE == 10000
CLEANUP_INTERVAL == 30000

\* the adapter handed to setAdapter
TheAdapter == [adapter |-> [handle |-> 0]]

\* outcomes of the adapter's startDiscovery()/stopDiscovery() and of isDiscovering()
AdapterOutcomes == {"ok", "No discovery started", "error"}
IsDiscoveringOutcomes == {"true", "false", "error"}
\* what adapter.devices() resolves to: addresses in the adapter's order
DevicesOutcomes == {<<>>, <<"AA:AA">>, <<"AA:AA", "BB:BB">>}
FetchOutcomes == {"ok", "error"}

TaskIds == 1..MaxTasks
LoopIds == 1..MaxLoops
NoLoop == [pc |-> "none"]

\* offsets of local time from UTC (ms): UTC itself and one hour east
TzOffsets == {0, 60 * 60 * 1000}

\* instants the clock visits: whole multiples of MAX_AGE and of CLEANUP_INTERVAL,
\* and the same plus the sub-second step
TimePoints(last) ==
    LET whole == {k * MAX_AGE : k \in 0..(last \div MAX_AGE)}
                 \cup {k * CLEANUP_INTERVAL : k \in 0..(last \div CLEANUP_INTERVAL)}
    IN  whole \cup {t + TickMs : t \in whole}

\* getCurrentTimestamp(): the UTC wall clock as "YYYY-MM-DD HH:mm:ss"; the text
\* keeps whole seconds only and carries no zone.  The text is represented by the
\* number of whole seconds it spells out.
getCurrentTimestamp(t) == t \div 1000

\* new Date(text).getTime(): a date-time text without zone is read as local time
DateParse(text, tz) == text * 1000 - tz

ConnInit ==
    /\ conn = [bluetooth |-> Null, adapter |-> Null, destroy |-> Null,
               isInitialized |-> FALSE, initAttempts |-> 0,
               currentState |-> "disconnected"]
    /\ bt = <<>>

ScannerInit ==
    /\ scan = [adapter |-> Null, isScanning |-> FALSE, targetDevice |-> Null,
               isConnected |-> FALSE, reconnectTimer |-> Null, scanTimeout |-> Null,
               deviceListeners |-> <<>>,
               \* the timeouts armed by the disconnect listener and not yet fired or
               \* cleared, and the number of setTimeout calls it made
               timers |-> {}, timersMade |-> 0,
               \* decodeData: the counter, the writeData calls made on the FileLogger,
               \* and what became of the last buffer a characteristic delivered
               dataCounter |-> 0, logWrites |-> 0, lastNotification |-> NoData,
               \* the scan timeouts armed by startScan and not yet fired or cleared,
               \* each with the task whose promise it resolves; the setTimeout calls
               scanTimers |-> {}, scanTimersMade |-> 0]

DiscInit ==
    /\ ConnInit
    /\ ScannerInit
    /\ disc = [isDiscovering |-> FALSE,
               discoveredDevices |-> [a \in {} |-> Null],
               adapter |-> Null,
               cleanupInProgress |-> FALSE,
               cacheCleanupInterval |-> [due |-> CLEANUP_INTERVAL]]
    /\ tasks = [t \in TaskIds |-> <<>>]
    /\ loops = [l \in LoopIds |-> NoLoop]
    /\ dEmitted = <<>>
    /\ lastReturn = Null
    /\ hist = [started |-> 0, stopped |-> 0, activeStops |-> 0, idleStops |-> 0,
               initializeCalls |-> 0, cleanupCalls |-> 0, stateChanges |-> <<>>,
               disconnectCalls |-> 0, stopBegun |-> FALSE,
               \* since the last 'disconnect' notification: its instant, whether cleanup
               \* ran its timer block, and the autoConnectToTarget calls timers started
               lastDisconnectAt |-> -1, cleanupSince |-> FALSE, reconnectsSince |-> 0,
               cleanupDone |-> FALSE, quietSince |-> FALSE,
               \* the buffers delivered by characteristics
               notified |-> 0]
    /\ now = 0

\* the state as one task sees it: the objects, the task's own stack, the poll
\* loops, the events emitted and the returned value so far in this step
Machine(t) ==
    [disc |-> disc, conn |-> conn, scan |-> scan, bt |-> bt,
     stack |-> tasks[t], loops |-> loops, emitted |-> <<>>,
     ret |-> lastReturn, hist |-> [hist EXCEPT !.stateChanges = <<>>],
     destroyOutcome |-> "ok"]

Commit(t, m) ==
    /\ disc' = m.disc
    /\ conn' = m.conn
    /\ scan' = m.scan
    /\ bt' = m.bt
    /\ tasks' = [tasks EXCEPT ![t] = m.stack]
    /\ loops' = m.loops
    /\ dEmitted' = m.emitted
    /\ lastReturn' = m.ret
    /\ hist' = m.hist

Emit(m, event) == [m EXCEPT !.emitted = Append(@, event)]

Frame(fn, pc) == [fn |-> fn, pc |-> pc, ret |-> Null]
Top(m) == m.stack[Len(m.stack)]
Push(m, frame) == [m EXCEPT !.stack = Append(@, frame)]
SetPc(m, pc) == [m EXCEPT !.stack[Len(m.stack)] = [@ EXCEPT !.pc = pc, !.ret = Null]]

\* a method settles: its frame goes, and the result reaches the awaiting caller, or
\* the environment when the method was called from outside
Settle(m, fn, threw, value) ==
    LET rest == SubSeq(m.stack, 1, Len(m.stack) - 1)
        result == [fn |-> fn, threw |-> threw, value |-> value]
    IN  IF rest = <<>>
        THEN [m EXCEPT !.stack = <<>>, !.ret = result]
        ELSE [m EXCEPT !.stack = [rest EXCEPT ![Len(rest)] = [@ EXCEPT !.ret = result]]]

At(t, fn, pc) ==
    /\ tasks[t] # <<>>
    /\ tasks[t][Len(tasks[t])].fn = fn
    /\ tasks[t][Len(tasks[t])].pc = pc

isCacheValid(d, address, t, tz) ==
    /\ address \in DOMAIN d.discoveredDevices
    /\ t - DateParse(d.discoveredDevices[address].timestamp, tz) < MAX_AGE

_cleanupCache(d, t, tz) ==
    [d EXCEPT !.discoveredDevices =
        [a \in {x \in DOMAIN @ : isCacheValid(d, x, t, tz)} |-> @[a]]]

getDiscoveredDevices(d, includeExpired, t, tz) ==
    IF includeExpired
    THEN DOMAIN d.discoveredDevices
    ELSE {a \in DOMAIN d.discoveredDevices : isCacheValid(d, a, t, tz)}

setAdapter(m, adapter) ==
    Emit([m EXCEPT !.disc.adapter = adapter], "discovery:adapter_set")

EmptyCache == [a \in {} |-> Null]
CachePut(cache, address, entry) ==
    [a \in DOMAIN cache \cup {address} |-> IF a = address THEN entry ELSE cache[a]]

(* ---- what a device broadcasts, and getDeviceInfo ---- *)
TargetName == "APTIS"
SIGNAL_STRENGTH_THRESHOLD == -80
DeviceNames == {TargetName, "OTHER"}
\* a signal strength on each side of the threshold, or none reported
DeviceRssis == {[dBm |-> -70], [dBm |-> -90], Null}
\* the first device broadcasts any name and signal strength, the other is a
\* stranger
Radios ==
    {[a \in Addresses |-> IF a = "AA:AA" THEN b ELSE [name |-> "OTHER", rssi |-> Null]] :
        b \in [name : DeviceNames, rssi : DeviceRssis]}
QuietRadio == [a \in Addresses |-> [name |-> "OTHER", rssi |-> Null]]

\* a JavaScript string: the number it starts with, if any, and the text after it
Text(number, rest) == [number |-> number, rest |-> rest]
NaN == [nan |-> TRUE]
\* ToNumber of a string: only a string that is a numeric literal and nothing
\* else converts to that number
StringToNumber(text) == IF text.number # Null /\ text.rest = "" THEN text.number ELSE NaN
\* string < number: the string is converted first; a comparison with NaN is false
TextLessThan(text, n) ==
    LET x == StringToNumber(text) IN IF x = NaN THEN FALSE ELSE x.dBm < n

\* getDeviceInfo: the name as read, `${rssi} dBm` or 'Non disponibile'
getDeviceInfo(broadcast, address, t) ==
    [address |-> address,
     name |-> broadcast.name,
     rssi |-> IF broadcast.rssi # Null THEN Text(broadcast.rssi, " dBm")
              ELSE Text(Null, "Non disponibile"),
     timestamp |-> getCurrentTimestamp(t)]

\* matchesCriteria(deviceInfo, criteria)
matchesCriteria(deviceInfo, criteria) ==
    IF criteria.name # "" /\ deviceInfo.name # criteria.name THEN FALSE
    ELSE IF criteria.minRssi # 0 /\ TextLessThan(deviceInfo.rssi, criteria.minRssi) THEN FALSE
    ELSE TRUE

(* ---- the detached poll loop of startDiscovery ---- *)
FreeLoops(ls) == {l \in LoopIds : ls[l] = NoLoop}
FirstFreeLoop(ls) == CHOOSE l \in FreeLoops(ls) : \A k \in FreeLoops(ls) : l <= k

\* the addresses still to look at, from the first one whose cache entry is not valid
RECURSIVE SkipCached(_, _, _, _)
SkipCached(d, pending, t, tz) ==
    IF pending = <<>> THEN <<>>
    ELSE IF isCacheValid(d, Head(pending), t, tz) THEN SkipCached(d, Tail(pending), t, tz)
    ELSE pending

\* for (const address of devices): skip the addresses with a valid cache entry and
\* suspend at adapter.getDevice() of the first other one; with no adapter every
\* getDevice throws into the inner catch, and the loop goes to its sleep
pollDevices(m, l, pending, t, tz) ==
    LET rest == SkipCached(m.disc, pending, t, tz)
    IN  IF rest = <<>> \/ m.disc.adapter = Null
        THEN [m EXCEPT !.loops[l] = [pc |-> "sleep"]]
        ELSE [m EXCEPT !.loops[l] = [pc |-> "fetch", cur |-> Head(rest), pending |-> Tail(rest)]]

\* while (this.isDiscovering) { devices = await this.adapter.devices() ...
pollIterate(m, l) ==
    IF ~m.disc.isDiscovering THEN [m EXCEPT !.loops[l] = NoLoop]
    ELSE IF m.disc.adapter = Null THEN [m EXCEPT !.loops[l] = [pc |-> "sleep"]]
    ELSE [m EXCEPT !.loops[l] = [pc |-> "devices"]]

\* adapter.devices() rejects: the outer catch, then the sleep
pollFailed(m, l) == [m EXCEPT !.loops[l] = [pc |-> "sleep"]]

\* adapter.getDevice() and getDeviceInfo() settle: write the cache, emit, go on
pollGotDevice(m, l, outcome, t, tz, onAir) ==
    LET address == m.loops[l].cur
        isNewDevice == address \notin DOMAIN m.disc.discoveredDevices
        deviceInfo == getDeviceInfo(onAir[address], address, t)
        entry == [name |-> deviceInfo.name, rssi |-> deviceInfo.rssi,
                  timestamp |-> getCurrentTimestamp(t), writtenAt |-> t]
        m1 == IF outcome = "error" THEN m
              ELSE Emit([m EXCEPT !.disc.discoveredDevices = CachePut(@, address, entry)],
                        IF isNewDevice THEN "discovery:device_found"
                        ELSE "discovery:device_updated")
    IN  pollDevices(m1, l, m.loops[l].pending, t, tz)

(* ---- ensureDiscoveryStopped ---- *)
ensureDiscoveryStopped(m) ==
    IF m.disc.adapter = Null THEN Settle(Push(m, Frame("ensureDiscoveryStopped", "entry")),
                                        "ensureDiscoveryStopped", FALSE, "undefined")
    ELSE Push(m, Frame("ensureDiscoveryStopped", "await_isDiscovering"))

ensureGotIsDiscovering(m, outcome) ==
    IF outcome = "error" THEN Settle(m, "ensureDiscoveryStopped", FALSE, "undefined")
    ELSE IF outcome = "false"
    THEN Settle([m EXCEPT !.disc.isDiscovering = FALSE], "ensureDiscoveryStopped", FALSE, "undefined")
    ELSE IF m.disc.adapter = Null THEN Settle(m, "ensureDiscoveryStopped", FALSE, "undefined")
    ELSE SetPc(m, "await_stopDiscovery")

ensureStopSettled(m, outcome) ==
    IF outcome = "ok" THEN SetPc(m, "sleep")
    ELSE Settle(m, "ensureDiscoveryStopped", FALSE, "undefined")

ensureSlept(m) ==
    Settle([m EXCEPT !.disc.isDiscovering = FALSE], "ensureDiscoveryStopped", FALSE, "undefined")

(* ---- startDiscovery ---- *)
startDiscoveryAlready(d) == d.isDiscovering

startDiscovery(m) ==
    LET m0 == Push([m EXCEPT !.hist.stopBegun = FALSE, !.hist.quietSince = FALSE],
                   Frame("startDiscovery", "after_ensure"))
    IN  IF m.disc.adapter = Null THEN Settle(m0, "startDiscovery", TRUE, "BLEError")
        ELSE IF startDiscoveryAlready(m.disc) THEN Settle(m0, "startDiscovery", FALSE, "true")
        ELSE ensureDiscoveryStopped(m0)

\* after await ensureDiscoveryStopped(): emit, clear the cache, call the adapter
startAfterEnsure(m) ==
    LET m1 == Emit([m EXCEPT !.disc.discoveredDevices = EmptyCache], "discovery:starting")
    IN  IF m1.disc.adapter = Null THEN Settle(m1, "startDiscovery", TRUE, "TypeError")
        ELSE SetPc(m1, "await_startDiscovery")

\* adapter.startDiscovery() settles
startSettled(m, outcome) ==
    IF outcome = "ok"
    THEN LET l == FirstFreeLoop(m.loops)
             m1 == [m EXCEPT !.disc.isDiscovering = TRUE, !.hist.started = @ + 1]
             m2 == pollIterate(m1, l)
         IN  Settle(Emit(m2, "discovery:started"), "startDiscovery", FALSE, "true")
    ELSE IF outcome = "No discovery started" THEN Settle(m, "startDiscovery", FALSE, "true")
    ELSE Settle(m, "startDiscovery", TRUE, "Error")

(* ---- stopDiscovery ---- *)
stopDiscoveryNoStateCheck(d) == d.adapter = Null
stopDiscoveryInactive(d) == d.adapter = Null \/ ~d.isDiscovering

stopDiscovery(m) ==
    LET m0 == Push(m, Frame("stopDiscovery", "await_stopDiscovery"))
    IN  IF stopDiscoveryInactive(m.disc)
        THEN Settle([m0 EXCEPT !.hist.idleStops = @ + 1], "stopDiscovery", FALSE, "undefined")
        ELSE Emit([m0 EXCEPT !.disc.isDiscovering = FALSE, !.hist.activeStops = @ + 1,
                             !.hist.stopBegun = TRUE],
                  "discovery:stopping")

stopSettled(m, outcome) ==
    IF outcome \in {"ok", "No discovery started"}
    THEN Settle(Emit([m EXCEPT !.hist.stopped = @ + 1, !.hist.quietSince = TRUE],
                     "discovery:stopped"),
                "stopDiscovery", FALSE, "undefined")
    ELSE Settle(m, "stopDiscovery", FALSE, "undefined")

(* ---- findDevice ---- *)
\* the catch of findDevice: handleError logs, then await this.stopDiscovery()
findFailed(m) == stopDiscovery(SetPc(m, "catch_after_stopDiscovery"))

\* one turn of the while loop, up to await this.adapter.devices()
findRound(m) ==
    IF m.disc.adapter = Null THEN findFailed(m) ELSE SetPc(m, "await_devices")

\* for (const address of devices): up to the next await, or to the sleep
RECURSIVE findNextAddress(_, _, _)
findNextAddress(m, t, tz) ==
    LET frame == Top(m)
    IN  IF frame.pending = <<>> THEN SetPc(m, "sleep")
        ELSE LET address == Head(frame.pending)
                 m1 == [m EXCEPT !.stack[Len(m.stack)].cur = address,
                                 !.stack[Len(m.stack)].pending = Tail(frame.pending)]
             IN  IF m.disc.adapter = Null THEN findNextAddress(m1, t, tz)
                 ELSE IF ~isCacheValid(m.disc, address, t, tz) THEN SetPc(m1, "await_fetch")
                 ELSE IF matchesCriteria(m.disc.discoveredDevices[address], frame.criteria)
                 THEN SetPc(m1, "await_cachedDevice")
                 ELSE findNextAddress(m1, t, tz)

findGotDevices(m, devices, t, tz) ==
    findNextAddress([m EXCEPT !.stack[Len(m.stack)].pending = devices], t, tz)

\* return await this.adapter.getDevice(address) for a cached match: no stopDiscovery
findGotCachedDevice(m, outcome, t, tz) ==
    IF outcome = "error" THEN findNextAddress(m, t, tz)
    ELSE Settle(m, "findDevice", FALSE, Top(m).cur)

\* adapter.getDevice() and getDeviceInfo() settle for an address not in the cache
findFetched(m, outcome, t, tz, onAir) ==
    IF outcome = "error" THEN findNextAddress(m, t, tz)
    ELSE IF matchesCriteria(getDeviceInfo(onAir[Top(m).cur], Top(m).cur, t), Top(m).criteria)
    THEN stopDiscovery(SetPc(m, "match_after_stopDiscovery"))
    ELSE findNextAddress(m, t, tz)

\* after the 500 ms sleep: the while condition
findSlept(m, timedOut) ==
    IF timedOut THEN stopDiscovery(SetPc(m, "timeout_after_stopDiscovery"))
    ELSE findRound([m EXCEPT !.stack[Len(m.stack)].rounds = @ + 1])

\* after an await this.stopDiscovery(): the three ways out
findAfterStop(m) ==
    IF Top(m).pc = "match_after_stopDiscovery"
    THEN Settle(Emit(m, "discovery:device_found"), "findDevice", FALSE, Top(m).cur)
    ELSE IF Top(m).pc = "timeout_after_stopDiscovery"
    THEN Settle(Emit(m, "discovery:search_timeout"), "findDevice", FALSE, "null")
    ELSE Settle(m, "findDevice", FALSE, "null")

findAfterStart(m) ==
    IF Top(m).ret.threw THEN findFailed(m)
    ELSE findRound(Emit(m, "discovery:search_started"))

findDevice(m, criteria) ==
    startDiscovery(Push(m, [fn |-> "findDevice", pc |-> "after_startDiscovery", ret |-> Null,
                            criteria |-> criteria, pending |-> <<>>, cur |-> "",
                            rounds |-> 0]))

(* ---- cleanup ---- *)
cleanupGuard(d) == d.cleanupInProgress

\* the part of cleanup after the discovery was stopped, and its finally
cleanupFinish(m) ==
    Settle(Emit([m EXCEPT !.disc.discoveredDevices = EmptyCache,
                          !.disc.adapter = Null,
                          !.disc.cleanupInProgress = FALSE,
                          !.hist.quietSince = TRUE],
                "discovery:cleanup"),
           "cleanup", FALSE, "undefined")

cleanup(m) ==
    LET m0 == Push(m, Frame("cleanup", "after_stopDiscovery"))
        m1 == [m0 EXCEPT !.disc.cleanupInProgress = TRUE,
                         !.disc.cacheCleanupInterval = Null]
    IN  IF cleanupGuard(m.disc) THEN Settle(m0, "cleanup", FALSE, "undefined")
        ELSE IF m1.disc.isDiscovering THEN stopDiscovery(m1)
        ELSE cleanupFinish(m1)

(***************************************************************************)
(* BLEConnection: the Bluetooth handle and its adapter.                    *)
(***************************************************************************)
maxRetries == 3
DefaultAdapterOutcomes == {"ok", "none", "error"}
IsPoweredOutcomes == {"true", "false", "error"}
SetPoweredOutcomes == {"ok", "error"}

\* updateState: the STATE_CHANGED event carries {oldState, newState}; the pairs of
\* the running step are kept in hist.stateChanges
updateState(m, newState) ==
    Emit([m EXCEPT !.conn.currentState = newState,
                   !.hist.stateChanges =
                       Append(@, [oldState |-> m.conn.currentState, newState |-> newState])],
         "bluetooth:state_changed")

getAdapter(c) == c.adapter

isReady(c) == c.isInitialized /\ c.adapter # Null

\* the catch of initialize
connInitializeFailed(m, error) ==
    Settle(Emit(updateState(m, "error"), "bluetooth:error"), "connection.initialize", TRUE, error)

\* the end of initialize
connInitializeDone(m) ==
    Settle(Emit(updateState([m EXCEPT !.conn.isInitialized = TRUE], "ready"),
                "bluetooth:initialized"),
           "connection.initialize", FALSE, "true")

\* connRetry without the limit on the attempts
connRetryUnbounded(m) ==
    [SetPc(m, "retry_sleep") EXCEPT !.stack[Len(m.stack)].retries = Top(m).retries + 1]

\* one failed attempt to get the default adapter
connRetry(m) ==
    LET retries == Top(m).retries + 1
    IN  IF retries = maxRetries
        THEN connInitializeFailed(Emit(m, "bluetooth:adapter_not_found"), "Error")
        ELSE [SetPc(m, "retry_sleep") EXCEPT !.stack[Len(m.stack)].retries = retries]

\* this.adapter = await this.bluetooth.defaultAdapter()
connLookup(m) ==
    IF m.conn.bluetooth = Null THEN connRetry(m)
    ELSE [SetPc(m, "await_defaultAdapter") EXCEPT
              !.stack[Len(m.stack)].asked = m.conn.bluetooth,
              !.stack[Len(m.stack)].lookups = @ + 1]

\* createBluetooth() and the first attempt
connCreate(m) ==
    LET h == [handle |-> Len(m.bt) + 1]
        m1 == [m EXCEPT !.bt = Append(@, 0), !.conn.bluetooth = h, !.conn.destroy = h,
                        !.stack[Len(m.stack)].retries = 0]
    IN  connLookup(m1)

connGotDefaultAdapter(m, outcome) ==
    IF outcome = "error" THEN connRetry(m)
    ELSE IF outcome = "none"
    THEN connInitializeFailed(Emit([m EXCEPT !.conn.adapter = Null], "bluetooth:adapter_found"),
                              "BLEError")
    ELSE SetPc(Emit([m EXCEPT !.conn.adapter = [adapter |-> Top(m).asked]],
                    "bluetooth:adapter_found"),
               "await_isPowered")

connGotIsPowered(m, outcome) ==
    IF outcome = "error" THEN connInitializeFailed(m, "Error")
    ELSE IF outcome = "true" THEN connInitializeDone(m)
    ELSE IF m.conn.adapter = Null
    THEN connInitializeFailed(Emit(m, "bluetooth:power_on"), "TypeError")
    ELSE SetPc(Emit(m, "bluetooth:power_on"), "await_setPowered")

connSetPoweredSettled(m, outcome) ==
    IF outcome = "error" THEN connInitializeFailed(m, "Error")
    ELSE SetPc(m, "power_sleep")

\* the outcomes of the destroy function createBluetooth returned
DestroyOutcomes == {"ok", "error"}

\* the machine with the outcome the next call of destroy will have
\* a call from outside that opens a session again after a cleanup
NewSession(m) == [m EXCEPT !.hist.cleanupDone = FALSE]

WithDestroy(m, outcome) == [m EXCEPT !.destroyOutcome = outcome]

\* the outer catch of resetBluetooth
resetFailed(m) ==
    Settle(Emit(updateState(m, "error"), "bluetooth:error"), "resetBluetooth", FALSE, "undefined")

\* if (this.destroy) this.destroy(); and the fields reset; then the settle sleep
resetDestroy(m) ==
    LET h == m.conn.destroy
        m1 == IF h = Null THEN m ELSE [m EXCEPT !.bt[h.handle] = @ + 1]
    IN  IF h # Null /\ m.destroyOutcome = "error"
        THEN resetFailed(m1)
        ELSE SetPc([m1 EXCEPT !.conn.bluetooth = Null, !.conn.adapter = Null,
                              !.conn.isInitialized = FALSE],
                   "settle_sleep")

resetBluetooth(m) ==
    LET m1 == Emit(updateState(Push(m, Frame("resetBluetooth", "await_isDiscovering")),
                               "resetting"),
                   "bluetooth:resetting")
    IN  IF m1.conn.adapter # Null THEN m1 ELSE resetDestroy(m1)

resetGotIsDiscovering(m, outcome) ==
    IF outcome = "true" /\ m.conn.adapter # Null THEN SetPc(m, "await_stopDiscovery")
    ELSE resetDestroy(m)

resetStopSettled(m) == resetDestroy(m)

resetSettled(m) ==
    Settle(Emit(updateState(m, "disconnected"), "bluetooth:reset_complete"),
           "resetBluetooth", FALSE, "undefined")

connInitialize(m) ==
    LET m0 == Push(m, [fn |-> "connection.initialize", pc |-> "after_resetBluetooth",
                       ret |-> Null, retries |-> 0, asked |-> Null, lookups |-> 0])
        m1 == Emit(updateState(m0, "initializing"), "bluetooth:initializing")
        m2 == [m1 EXCEPT !.conn.initAttempts = @ + 1]
    IN  IF m2.conn.bluetooth # Null \/ m2.conn.adapter # Null
        THEN resetBluetooth(m2)
        ELSE connCreate(m2)

connCleanup(m) ==
    resetBluetooth(Emit(Push(m, Frame("connection.cleanup", "after_resetBluetooth")),
                        "bluetooth:cleanup_start"))

connCleanupDone(m) ==
    Settle(Emit(m, "bluetooth:cleanup_complete"), "connection.cleanup", FALSE, "undefined")

(***************************************************************************)
(* BLEScanner: initialize, stopScan, disconnect and cleanup.               *)
(***************************************************************************)
DisconnectOutcomes == {"ok", "error"}

\* removeAllDeviceListeners(device): the entries of the registry that match, in
\* insertion order.  removedCount is a const: removedCount++ throws a TypeError
\* right after the first matching entry was removed.
scannerMatches(entry, device) ==
    entry.device.address = device.address \/ entry.device.uuid = device.uuid

scannerRemoveAllDeviceListeners(m, device) ==
    LET entries == m.scan.deviceListeners
        hits == {i \in 1..Len(entries) : scannerMatches(entries[i], device)}
    IN  IF hits = {}
        THEN [threw |-> FALSE, m |-> Emit(m, "scanner:all_listeners_removed")]
        ELSE LET first == CHOOSE i \in hits : \A j \in hits : i <= j
             IN  [threw |-> TRUE,
                  m |-> [m EXCEPT !.scan.deviceListeners =
                            SubSeq(entries, 1, first - 1) \o
                            SubSeq(entries, first + 1, Len(entries))]]

scannerDisconnect(m) ==
    LET m0 == Push(m, Frame("scanner.disconnect", "await_disconnect"))
    IN  IF m.scan.targetDevice # Null /\ m.scan.isConnected
        THEN LET r == scannerRemoveAllDeviceListeners(m0, m.scan.targetDevice)
             IN  IF r.threw THEN Settle(r.m, "scanner.disconnect", FALSE, "false")
                 ELSE [r.m EXCEPT !.hist.disconnectCalls = @ + 1]
        ELSE Settle(m0, "scanner.disconnect", FALSE, "true")

scannerDisconnectSettled(m, outcome) ==
    IF outcome = "error" THEN Settle(m, "scanner.disconnect", FALSE, "false")
    ELSE Settle(Emit([m EXCEPT !.scan.isConnected = FALSE, !.scan.targetDevice = Null],
                     "scanner:disconnected"),
                "scanner.disconnect", FALSE, "true")

\* clearTimeout(handle): a null handle or one of a timeout already fired does nothing
clearTimeout(timers, handle) ==
    IF handle = Null THEN timers ELSE {timer \in timers : timer.id # handle.timer}

scannerStopScan(m) ==
    LET m0 == Push(m, Frame("scanner.stopScan", "after_stopDiscovery"))
    IN  IF ~m.scan.isScanning THEN Settle(m0, "scanner.stopScan", FALSE, "undefined")
        ELSE stopDiscovery([m0 EXCEPT !.scan.isScanning = FALSE,
                                      !.scan.scanTimers = clearTimeout(@, m.scan.scanTimeout),
                                      !.scan.scanTimeout = Null])

scannerStopScanDone(m) ==
    Settle(Emit(m, "scanner:scan_stopped"), "scanner.stopScan", FALSE, "undefined")

\* the catch of cleanup
scannerCleanupFailed(m) ==
    Settle(Emit([m EXCEPT !.hist.cleanupDone = TRUE], "scanner:cleanup_error"),
           "scanner.cleanup", FALSE, "undefined")

scannerCleanupDisconnect(m) == scannerDisconnect(SetPc(m, "after_disconnect"))

scannerCleanup(m) ==
    LET m0 == Emit(Push([m EXCEPT !.hist.cleanupCalls = @ + 1],
                        Frame("scanner.cleanup", "after_stopScan")),
                   "scanner:cleanup_start")
        m1 == [m0 EXCEPT !.scan.scanTimers = clearTimeout(@, m.scan.scanTimeout),
                         !.scan.scanTimeout = Null,
                         !.scan.timers = clearTimeout(@, m.scan.reconnectTimer),
                         !.scan.reconnectTimer = Null,
                         !.hist.cleanupSince = TRUE]
    IN  IF m1.scan.isScanning THEN scannerStopScan(m1)
        ELSE scannerCleanupDisconnect(m1)

scannerCleanupAfterStopScan(m) ==
    IF Top(m).ret.threw THEN scannerCleanupFailed(m) ELSE scannerCleanupDisconnect(m)

scannerCleanupAfterDisconnect(m) ==
    IF Top(m).ret.threw THEN scannerCleanupFailed(m)
    ELSE cleanup(SetPc(m, "after_discoveryCleanup"))

scannerCleanupAfterDiscovery(m) ==
    IF Top(m).ret.threw THEN scannerCleanupFailed(m)
    ELSE connCleanup(SetPc(m, "after_connectionCleanup"))

scannerCleanupAfterConnection(m) ==
    IF Top(m).ret.threw THEN scannerCleanupFailed(m)
    ELSE Settle(Emit([m EXCEPT !.scan.isScanning = FALSE, !.scan.adapter = Null,
                               !.hist.cleanupDone = TRUE],
                     "scanner:cleanup_complete"),
                "scanner.cleanup", FALSE, "undefined")

scannerInitialize(m) ==
    connInitialize(Push([m EXCEPT !.hist.initializeCalls = @ + 1],
                        Frame("scanner.initialize", "after_connectionInitialize")))

\* after await this.bleConnection.initialize(): take the adapter, or clean up
scannerInitializeAfterConnection(m) ==
    IF Top(m).ret.threw THEN scannerCleanup(SetPc(m, "after_cleanup"))
    ELSE Settle(Emit(setAdapter([m EXCEPT !.scan.adapter = m.conn.adapter], m.conn.adapter),
                     "scanner:initialized"),
                "scanner.initialize", FALSE, "true")

scannerInitializeAfterCleanup(m) == Settle(m, "scanner.initialize", FALSE, "false")

(* ---- BLEScanner.startScan ---- *)
startScan(m) ==
    LET m0 == Push(m, Frame("scanner.startScan", "after_initialize"))
    IN  IF m.scan.isScanning
        THEN Settle(Emit(m0, "console.error:BLEScanner.startScan"),
                    "scanner.startScan", FALSE, "[]")
        ELSE scannerInitialize(m0)

\* after await this.initialize(), whose result is not looked at
startScanAfterInitialize(m) ==
    startDiscovery(SetPc(Emit([m EXCEPT !.scan.isScanning = TRUE], "scanner:scan_started"),
                         "after_startDiscovery"))

\* after await this.bleDiscovery.startDiscovery(): the catch, or the promise that
\* only the timeout of task t resolves
startScanAfterStartDiscovery(m, t) ==
    IF Top(m).ret.threw
    THEN scannerCleanup(SetPc(Emit(m, "console.error:BLEScanner.startScan"),
                              "catch_after_cleanup"))
    ELSE LET id == m.scan.scanTimersMade + 1
         IN  [SetPc(m, "await_scanTimeout") EXCEPT
                  !.scan.scanTimers = @ \cup {[id |-> id, task |-> t]},
                  !.scan.scanTimersMade = id,
                  !.scan.scanTimeout = [timer |-> id]]

\* the callback of the scan timeout: await this.stopScan(), then resolve
scanTimerFired(m, timer) ==
    scannerStopScan(SetPc([m EXCEPT !.scan.scanTimers = @ \ {timer}], "timer_after_stopScan"))

startScanResolve(m) == Settle(m, "scanner.startScan", FALSE, "getDiscoveredDevices()")

startScanAfterCleanup(m) == Settle(m, "scanner.startScan", FALSE, "[]")

(* ---- BLEScanner: listeners, connectAndSetup, autoConnectToTarget ---- *)
RETRY_ATTEMPTS == 3
RETRY_DELAY == 5000
\* how an awaited call of connectAndSetup settles; "listener_error": the call
\* succeeded and the registration of the listener that follows it throws
ConnectOutcomes == {"ok", "error", "listener_error"}
CharacteristicLists == {<<>>, <<"c1", "c2">>}

\* the object adapter.getDevice(address) gives, and a characteristic of its service
DeviceOf(address) == [address |-> address, uuid |-> "undefined"]
CharacteristicOf(uuid) == [address |-> "undefined", uuid |-> uuid]

\* `${device.address || device.uuid}_${eventName}`
scannerListenerKey(device, eventName) ==
    <<IF device.address # "undefined" THEN device.address ELSE device.uuid, eventName>>

scannerRemoveDeviceListener(m, device, eventName) ==
    LET key == scannerListenerKey(device, eventName)
        entries == m.scan.deviceListeners
    IN  IF \E i \in 1..Len(entries) : entries[i].key = key
        THEN Emit([m EXCEPT !.scan.deviceListeners = SelectSeq(entries, LAMBDA e : e.key # key)],
                  "scanner:listener_removed")
        ELSE m

scannerAddDeviceListener(m, device, eventName) ==
    LET m1 == scannerRemoveDeviceListener(m, device, eventName)
        entry == [key |-> scannerListenerKey(device, eventName), device |-> device,
                  eventName |-> eventName]
    IN  Emit([m1 EXCEPT !.scan.deviceListeners = Append(@, entry)], "scanner:listener_added")

\* BLEScanner.decodeData(buffer): throws a BLEError for fewer than 20 bytes, else
\* counts the buffer, reads the fields and writes the record to the FileLogger
scannerDecodeData(m, buffer) ==
    IF Len(buffer) < FrameLen
    THEN [threw |-> TRUE, data |-> NoData,
          m |-> Emit(m, "console.error:BLEScanner.decodeData")]
    ELSE [threw |-> FALSE, data |-> scannerDecodeFields(buffer),
          m |-> [m EXCEPT !.scan.dataCounter = @ + 1, !.scan.logWrites = @ + 1]]

\* the listener setupCharacteristicNotifications registers for 'valuechanged'
valueChangedListener(m, buffer) ==
    LET r == scannerDecodeData([m EXCEPT !.hist.notified = @ + 1], buffer)
    IN  IF r.threw
        THEN [Emit(r.m, "console.error:BLEScanner.valueChanged") EXCEPT
                  !.scan.lastNotification =
                      [buffer |-> buffer, data |-> NoData, threw |-> FALSE]]
        ELSE [Emit(r.m, "scanner:data_received") EXCEPT
                  !.scan.lastNotification =
                      [buffer |-> buffer, data |-> r.data, threw |-> FALSE]]

\* the listener setupAutoReconnect registers, without its clearTimeout
disconnectListenerNoClear(m, t) ==
    LET id == m.scan.timersMade + 1
    IN  [Emit(m, "scanner:connection_lost") EXCEPT
             !.scan.isConnected = FALSE,
             !.scan.timers = @ \cup {[id |-> id, due |-> t + RETRY_DELAY]},
             !.scan.timersMade = id,
             !.scan.reconnectTimer = [timer |-> id],
             !.hist.lastDisconnectAt = t,
             !.hist.cleanupSince = FALSE,
             !.hist.reconnectsSince = 0]

\* the listener setupAutoReconnect registers for the device's 'disconnect',
\* called at instant t
disconnectListener(m, t) ==
    LET id == m.scan.timersMade + 1
    IN  [Emit(m, "scanner:connection_lost") EXCEPT
             !.scan.isConnected = FALSE,
             !.scan.timers = clearTimeout(@, m.scan.reconnectTimer)
                                 \cup {[id |-> id, due |-> t + RETRY_DELAY]},
             !.scan.timersMade = id,
             !.scan.reconnectTimer = [timer |-> id],
             !.hist.lastDisconnectAt = t,
             !.hist.cleanupSince = FALSE,
             !.hist.reconnectsSince = 0]

\* the catch of connectAndSetup
connectFailed(m) == Settle(m, "scanner.connectAndSetup", FALSE, "false")

\* for (const charUUID of characteristics): up to the next await, or to the end
connectNextCharacteristic(m) ==
    IF Top(m).pending = <<>> THEN Settle(m, "scanner.connectAndSetup", FALSE, "true")
    ELSE [SetPc(m, "await_characteristic") EXCEPT
              !.stack[Len(m.stack)].cur = Head(Top(m).pending),
              !.stack[Len(m.stack)].pending = Tail(Top(m).pending)]

\* the catch inside the for loop, if it gave up on the remaining characteristics
connectCharacteristicFailedAborts(m) ==
    connectFailed(Emit(m, "console.error:BLEScanner.setupCharacteristics"))

\* the catch inside the for loop of setupCharacteristics: handleError logs, the
\* loop goes on
connectCharacteristicFailed(m) ==
    connectNextCharacteristic(Emit(m, "console.error:BLEScanner.setupCharacteristics"))

connectAndSetup(m, device) ==
    Emit(Push(m, [fn |-> "scanner.connectAndSetup", pc |-> "await_connect", ret |-> Null,
                  device |-> device, pending |-> <<>>, cur |-> ""]),
         "scanner:connecting")

\* connectAndSetup resumes after one of its awaits settled with `outcome`
connectResume(m, outcome, characteristics) ==
    LET pc == Top(m).pc
        device == Top(m).device
    IN  IF pc = "await_connect"
        THEN IF outcome = "error" THEN connectFailed(m)
             ELSE SetPc(scannerAddDeviceListener(
                            Emit([m EXCEPT !.scan.targetDevice = device,
                                           !.scan.isConnected = TRUE],
                                 "scanner:connected"),
                            device, "disconnect"),
                        "await_gatt")
        ELSE IF pc = "await_gatt"
        THEN IF outcome = "error" THEN connectFailed(m)
             ELSE SetPc(Emit(m, "scanner:gatt_connected"), "await_service")
        ELSE IF pc = "await_service"
        THEN IF outcome = "error" THEN connectFailed(m)
             ELSE SetPc(Emit(m, "scanner:service_found"), "await_characteristics")
        ELSE IF pc = "await_characteristics"
        THEN IF outcome = "error" THEN connectFailed(m)
             ELSE connectNextCharacteristic(
                      [m EXCEPT !.stack[Len(m.stack)].pending = characteristics])
        ELSE IF pc = "await_characteristic"
        THEN IF outcome = "error" THEN connectCharacteristicFailed(m)
             ELSE IF outcome = "listener_error"
             THEN connectCharacteristicFailed(
                      scannerRemoveDeviceListener(m, CharacteristicOf(Top(m).cur),
                                                  "valuechanged"))
             ELSE SetPc(scannerAddDeviceListener(m, CharacteristicOf(Top(m).cur), "valuechanged"),
                        "await_startNotifications")
        ELSE IF outcome = "error" THEN connectCharacteristicFailed(m)
        ELSE connectNextCharacteristic(Emit(m, "scanner:characteristic_configured"))

scannerFindTargetDevice(m) ==
    findDevice(Push(m, Frame("scanner.findTargetDevice", "after_findDevice")),
               [name |-> TargetName, minRssi |-> SIGNAL_STRENGTH_THRESHOLD])

scannerFindTargetDeviceDone(m) ==
    Settle(m, "scanner.findTargetDevice", FALSE,
           IF Top(m).ret.threw THEN "null" ELSE Top(m).ret.value)

\* one turn of the for loop of autoConnectToTarget, up to await findTargetDevice()
autoAttempt(m, attempt) ==
    scannerFindTargetDevice(
        Emit([SetPc(m, "after_findTargetDevice") EXCEPT
                  !.stack[Len(m.stack)].attempt = attempt,
                  !.stack[Len(m.stack)].finds = @ + 1],
             "scanner:connect_attempt"))

autoConnectToTarget(m) ==
    autoAttempt(Push(m, [fn |-> "scanner.autoConnectToTarget", pc |-> "after_findTargetDevice",
                         ret |-> Null, attempt |-> 1, finds |-> 0, sleeps |-> 0,
                         found |-> "null"]),
                1)

\* autoAfterFind with a loop that never gives up
autoAfterFindNoLimit(m) ==
    IF Top(m).ret.value # "null"
    THEN connectAndSetup([SetPc(m, "after_connectAndSetup") EXCEPT
                              !.stack[Len(m.stack)].found = Top(m).ret.value],
                         DeviceOf(Top(m).ret.value))
    ELSE [SetPc(m, "retry_sleep") EXCEPT !.stack[Len(m.stack)].sleeps = @ + 1]

\* after await this.findTargetDevice()
autoAfterFind(m) ==
    IF Top(m).ret.value # "null"
    THEN connectAndSetup([SetPc(m, "after_connectAndSetup") EXCEPT
                              !.stack[Len(m.stack)].found = Top(m).ret.value],
                         DeviceOf(Top(m).ret.value))
    ELSE IF Top(m).attempt < RETRY_ATTEMPTS
    THEN [SetPc(m, "retry_sleep") EXCEPT !.stack[Len(m.stack)].sleeps = @ + 1]
    ELSE Settle(m, "scanner.autoConnectToTarget", FALSE, "false")

autoSlept(m) == autoAttempt(m, Top(m).attempt + 1)

autoAfterConnect(m) == Settle(m, "scanner.autoConnectToTarget", FALSE, "true")

\* the callback of the reconnect timeout: await this.autoConnectToTarget()
reconnectTimerFired(m, timer) ==
    autoConnectToTarget([m EXCEPT !.scan.timers = @ \ {timer},
                                  !.hist.reconnectsSince = @ + 1])

(* ---- BLEDiscovery: the steps ---- *)
OtherThanDiscovery == <<codecVars, dhVars, emVars, tzOffset, horizon, radio>>
OtherThanTasks == <<codecVars, dhVars, emVars, scanVars, tzOffset, horizon, radio>>

FreeTasks == {t \in TaskIds : tasks[t] = <<>>}
FirstFreeTask == CHOOSE t \in FreeTasks : \A k \in FreeTasks : t <= k

\* the environment calls a method of the object
CallFromOutside ==
    /\ callsLeft > 0
    /\ FreeTasks # {}
    /\ callsLeft' = callsLeft - 1
    /\ UNCHANGED <<now, OtherThanDiscovery>>

Resume(t, m) ==
    /\ Commit(t, m)
    /\ UNCHANGED <<now, callsLeft, OtherThanDiscovery>>

Returned(t) == tasks[t][Len(tasks[t])].ret # Null

StartsInFlight ==
    Cardinality({t \in TaskIds : \E i \in 1..Len(tasks[t]) : tasks[t][i].fn = "startDiscovery"})

SetAdapter ==
    /\ disc.adapter = Null
    /\ FreeTasks # {}
    /\ Commit(FirstFreeTask, setAdapter(Machine(FirstFreeTask), TheAdapter))
    /\ UNCHANGED <<now, callsLeft, OtherThanDiscovery>>

StartDiscovery ==
    /\ CallFromOutside
    /\ \/ disc.adapter = Null
       \/ startDiscoveryAlready(disc)
       \/ StartsInFlight < Cardinality(FreeLoops(loops))
    /\ Commit(FirstFreeTask, startDiscovery(Machine(FirstFreeTask)))

StopDiscovery ==
    /\ CallFromOutside
    /\ Commit(FirstFreeTask, stopDiscovery(Machine(FirstFreeTask)))

Cleanup ==
    /\ CallFromOutside
    /\ Commit(FirstFreeTask, cleanup(Machine(FirstFreeTask)))

EnsureGotIsDiscovering(t) ==
    /\ At(t, "ensureDiscoveryStopped", "await_isDiscovering")
    /\ \E outcome \in IsDiscoveringOutcomes : Resume(t, ensureGotIsDiscovering(Machine(t), outcome))

EnsureStopSettled(t) ==
    /\ At(t, "ensureDiscoveryStopped", "await_stopDiscovery")
    /\ \E outcome \in AdapterOutcomes : Resume(t, ensureStopSettled(Machine(t), outcome))

EnsureSlept(t) ==
    /\ At(t, "ensureDiscoveryStopped", "sleep")
    /\ Resume(t, ensureSlept(Machine(t)))

StartAfterEnsure(t) ==
    /\ At(t, "startDiscovery", "after_ensure")
    /\ Returned(t)
    /\ Resume(t, startAfterEnsure(Machine(t)))

StartSettled(t) ==
    /\ At(t, "startDiscovery", "await_startDiscovery")
    /\ \E outcome \in AdapterOutcomes :
           \* at most MaxLoops poll loops are alive at a time
           /\ outcome = "ok" => FreeLoops(loops) # {}
           /\ Resume(t, startSettled(Machine(t), outcome))

StopSettled(t) ==
    /\ At(t, "stopDiscovery", "await_stopDiscovery")
    /\ \E outcome \in AdapterOutcomes : Resume(t, stopSettled(Machine(t), outcome))

CleanupAfterStop(t) ==
    /\ At(t, "cleanup", "after_stopDiscovery")
    /\ Returned(t)
    /\ Resume(t, cleanupFinish(Machine(t)))

\* the poll loops and the timers run outside every task
Detached == [disc |-> disc, conn |-> conn, scan |-> scan, bt |-> bt,
             stack |-> <<>>, loops |-> loops, emitted |-> <<>>,
             ret |-> lastReturn, hist |-> hist, destroyOutcome |-> "ok"]

CommitDetached(m) ==
    /\ disc' = m.disc
    /\ loops' = m.loops
    /\ dEmitted' = m.emitted
    /\ UNCHANGED <<tasks, lastReturn, hist, now, callsLeft, OtherThanTasks>>

PollWake(l) ==
    /\ loops[l].pc = "sleep"
    /\ CommitDetached(pollIterate(Detached, l))

PollGotDevices(l) ==
    /\ loops[l].pc = "devices"
    /\ \/ \E devices \in DevicesOutcomes :
             CommitDetached(pollDevices(Detached, l, devices, now, tzOffset))
       \/ CommitDetached(pollFailed(Detached, l))

PollGotDevice(l) ==
    /\ loops[l].pc = "fetch"
    /\ \E outcome \in FetchOutcomes :
          CommitDetached(pollGotDevice(Detached, l, outcome, now, tzOffset, radio))

\* the interval timer of _startCacheCleanup fires
CacheSweep ==
    /\ disc.cacheCleanupInterval # Null
    /\ now = disc.cacheCleanupInterval.due
    /\ disc' = [_cleanupCache(disc, now, tzOffset)
                   EXCEPT !.cacheCleanupInterval.due = @ + CLEANUP_INTERVAL]
    /\ dEmitted' = <<>>
    /\ UNCHANGED <<tasks, loops, lastReturn, hist, now, callsLeft, OtherThanTasks>>

\* time passes; an armed interval timer fires before the clock goes past its due time
AdvanceTime ==
    /\ \E t \in TimePoints(horizon) :
          /\ t > now
          /\ disc.cacheCleanupInterval # Null => t <= disc.cacheCleanupInterval.due
          /\ now' = t
    /\ dEmitted' = <<>>
    /\ UNCHANGED <<disc, tasks, loops, lastReturn, hist, callsLeft, OtherThanTasks>>

(* ---- BLEConnection and BLEScanner: the steps ---- *)
ScannerInitialize ==
    /\ CallFromOutside
    /\ \E destroyed \in DestroyOutcomes :
           Commit(FirstFreeTask, scannerInitialize(WithDestroy(Machine(FirstFreeTask), destroyed)))

ScannerCleanup ==
    /\ CallFromOutside
    /\ Commit(FirstFreeTask, scannerCleanup(Machine(FirstFreeTask)))

ConnAfterReset(t) ==
    /\ At(t, "connection.initialize", "after_resetBluetooth")
    /\ Returned(t)
    /\ Resume(t, connCreate(Machine(t)))

ConnGotDefaultAdapter(t) ==
    /\ At(t, "connection.initialize", "await_defaultAdapter")
    /\ \E outcome \in DefaultAdapterOutcomes : Resume(t, connGotDefaultAdapter(Machine(t), outcome))

ConnRetrySlept(t) ==
    /\ At(t, "connection.initialize", "retry_sleep")
    /\ Resume(t, connLookup(Machine(t)))

ConnGotIsPowered(t) ==
    /\ At(t, "connection.initialize", "await_isPowered")
    /\ \E outcome \in IsPoweredOutcomes : Resume(t, connGotIsPowered(Machine(t), outcome))

ConnSetPoweredSettled(t) ==
    /\ At(t, "connection.initialize", "await_setPowered")
    /\ \E outcome \in SetPoweredOutcomes : Resume(t, connSetPoweredSettled(Machine(t), outcome))

ConnPowerSlept(t) ==
    /\ At(t, "connection.initialize", "power_sleep")
    /\ Resume(t, connInitializeDone(Machine(t)))

ResetGotIsDiscovering(t) ==
    /\ At(t, "resetBluetooth", "await_isDiscovering")
    /\ \E outcome \in IsDiscoveringOutcomes, destroyed \in DestroyOutcomes :
           Resume(t, resetGotIsDiscovering(WithDestroy(Machine(t), destroyed), outcome))

ResetStopSettled(t) ==
    /\ At(t, "resetBluetooth", "await_stopDiscovery")
    /\ \E destroyed \in DestroyOutcomes :
           Resume(t, resetStopSettled(WithDestroy(Machine(t), destroyed)))

ResetSettled(t) ==
    /\ At(t, "resetBluetooth", "settle_sleep")
    /\ Resume(t, resetSettled(Machine(t)))

ConnCleanupDone(t) ==
    /\ At(t, "connection.cleanup", "after_resetBluetooth")
    /\ Returned(t)
    /\ Resume(t, connCleanupDone(Machine(t)))

ScannerInitializeAfterConnection(t) ==
    /\ At(t, "scanner.initialize", "after_connectionInitialize")
    /\ Returned(t)
    /\ Resume(t, scannerInitializeAfterConnection(Machine(t)))

ScannerInitializeAfterCleanup(t) ==
    /\ At(t, "scanner.initialize", "after_cleanup")
    /\ Returned(t)
    /\ Resume(t, scannerInitializeAfterCleanup(Machine(t)))

ScannerCleanupAfterDisconnect(t) ==
    /\ At(t, "scanner.cleanup", "after_disconnect")
    /\ Returned(t)
    /\ Resume(t, scannerCleanupAfterDisconnect(Machine(t)))

ScannerCleanupAfterDiscovery(t) ==
    /\ At(t, "scanner.cleanup", "after_discoveryCleanup")
    /\ Returned(t)
    /\ \E destroyed \in DestroyOutcomes :
           Resume(t, scannerCleanupAfterDiscovery(WithDestroy(Machine(t), destroyed)))

ScannerCleanupAfterConnection(t) ==
    /\ At(t, "scanner.cleanup", "after_connectionCleanup")
    /\ Returned(t)
    /\ Resume(t, scannerCleanupAfterConnection(Machine(t)))

\* BLEScanner under initialize and cleanup calls that may overlap
SpecScanInit ==
    /\ CodecIdle /\ DHInit /\ EMInit /\ DiscInit
    /\ tzOffset = 0
    /\ horizon = 0
    /\ radio = QuietRadio
    /\ callsLeft = ScanCalls
SpecScanNext ==
    \/ ScannerInitialize
    \/ ScannerCleanup
    \/ \E t \in TaskIds : ConnAfterReset(t)
    \/ \E t \in TaskIds : ConnGotDefaultAdapter(t)
    \/ \E t \in TaskIds : ConnRetrySlept(t)
    \/ \E t \in TaskIds : ConnGotIsPowered(t)
    \/ \E t \in TaskIds : ConnSetPoweredSettled(t)
    \/ \E t \in TaskIds : ConnPowerSlept(t)
    \/ \E t \in TaskIds : ResetGotIsDiscovering(t)
    \/ \E t \in TaskIds : ResetStopSettled(t)
    \/ \E t \in TaskIds : ResetSettled(t)
    \/ \E t \in TaskIds : ConnCleanupDone(t)
    \/ \E t \in TaskIds : ScannerInitializeAfterConnection(t)
    \/ \E t \in TaskIds : ScannerInitializeAfterCleanup(t)
    \/ \E t \in TaskIds : ScannerCleanupAfterDisconnect(t)
    \/ \E t \in TaskIds : ScannerCleanupAfterDiscovery(t)
    \/ \E t \in TaskIds : ScannerCleanupAfterConnection(t)
SpecScan == SpecScanInit /\ [][SpecScanNext]_vars

\* BLEConnection called directly, one call after the other has settled
AllSettled == \A t \in TaskIds : tasks[t] = <<>>

ConnInitialize ==
    /\ AllSettled
    /\ CallFromOutside
    /\ \E destroyed \in DestroyOutcomes :
           Commit(FirstFreeTask, connInitialize(WithDestroy(Machine(FirstFreeTask), destroyed)))

ConnResetBluetooth ==
    /\ AllSettled
    /\ CallFromOutside
    /\ \E destroyed \in DestroyOutcomes :
           Commit(FirstFreeTask, resetBluetooth(WithDestroy(Machine(FirstFreeTask), destroyed)))

ConnCleanup ==
    /\ AllSettled
    /\ CallFromOutside
    /\ \E destroyed \in DestroyOutcomes :
           Commit(FirstFreeTask, connCleanup(WithDestroy(Machine(FirstFreeTask), destroyed)))

SpecConnInit ==
    /\ CodecIdle /\ DHInit /\ EMInit /\ DiscInit
    /\ tzOffset = 0
    /\ horizon = 0
    /\ radio = QuietRadio
    /\ callsLeft = ConnCalls
SpecConnNext ==
    \/ ConnInitialize
    \/ ConnResetBluetooth
    \/ ConnCleanup
    \/ \E t \in TaskIds : ConnAfterReset(t)
    \/ \E t \in TaskIds : ConnGotDefaultAdapter(t)
    \/ \E t \in TaskIds : ConnRetrySlept(t)
    \/ \E t \in TaskIds : ConnGotIsPowered(t)
    \/ \E t \in TaskIds : ConnSetPoweredSettled(t)
    \/ \E t \in TaskIds : ConnPowerSlept(t)
    \/ \E t \in TaskIds : ResetGotIsDiscovering(t)
    \/ \E t \in TaskIds : ResetStopSettled(t)
    \/ \E t \in TaskIds : ResetSettled(t)
    \/ \E t \in TaskIds : ConnCleanupDone(t)
SpecConn == SpecConnInit /\ [][SpecConnNext]_vars

(* ---- BLEDiscovery.findDevice: the steps ---- *)
\* criteria.name and criteria.minRssi; "" and 0 stand for a criterion not given
Criterias == {[name |-> TargetName, minRssi |-> SIGNAL_STRENGTH_THRESHOLD],
              [name |-> TargetName, minRssi |-> 0]}

FindDevice ==
    /\ AllSettled
    /\ CallFromOutside
    /\ \E criteria \in Criterias :
           Commit(FirstFreeTask, findDevice(Machine(FirstFreeTask), criteria))

FindAfterStart(t) ==
    /\ At(t, "findDevice", "after_startDiscovery")
    /\ Returned(t)
    /\ Resume(t, findAfterStart(Machine(t)))

FindGotDevices(t) ==
    /\ At(t, "findDevice", "await_devices")
    /\ \/ \E devices \in DevicesOutcomes :
              Resume(t, findGotDevices(Machine(t), devices, now, tzOffset))
       \/ Resume(t, findFailed(Machine(t)))

FindGotCachedDevice(t) ==
    /\ At(t, "findDevice", "await_cachedDevice")
    /\ \E outcome \in FetchOutcomes :
           Resume(t, findGotCachedDevice(Machine(t), outcome, now, tzOffset))

FindFetched(t) ==
    /\ At(t, "findDevice", "await_fetch")
    /\ \E outcome \in FetchOutcomes :
           Resume(t, findFetched(Machine(t), outcome, now, tzOffset, radio))

FindSlept(t) ==
    /\ At(t, "findDevice", "sleep")
    /\ \E timedOut \in BOOLEAN :
           /\ (tasks[t][Len(tasks[t])].rounds >= SearchRounds) => timedOut
           /\ Resume(t, findSlept(Machine(t), timedOut))

FindAfterStop(t) ==
    /\ tasks[t] # <<>>
    /\ tasks[t][Len(tasks[t])].fn = "findDevice"
    /\ tasks[t][Len(tasks[t])].pc \in
          {"match_after_stopDiscovery", "timeout_after_stopDiscovery", "catch_after_stopDiscovery"}
    /\ Returned(t)
    /\ Resume(t, findAfterStop(Machine(t)))

SpecFindInit ==
    /\ CodecIdle /\ DHInit /\ EMInit /\ DiscInit
    /\ tzOffset = 0
    /\ horizon = 0
    /\ radio \in Radios
    /\ callsLeft = FindCalls
SpecFindNext ==
    \/ SetAdapter
    \/ FindDevice
    \/ \E t \in TaskIds : FindAfterStart(t)
    \/ \E t \in TaskIds : FindGotDevices(t)
    \/ \E t \in TaskIds : FindGotCachedDevice(t)
    \/ \E t \in TaskIds : FindFetched(t)
    \/ \E t \in TaskIds : FindSlept(t)
    \/ \E t \in TaskIds : FindAfterStop(t)
    \/ \E t \in TaskIds : EnsureGotIsDiscovering(t)
    \/ \E t \in TaskIds : EnsureStopSettled(t)
    \/ \E t \in TaskIds : EnsureSlept(t)
    \/ \E t \in TaskIds : StartAfterEnsure(t)
    \/ \E t \in TaskIds : StartSettled(t)
    \/ \E t \in TaskIds : StopSettled(t)
    \/ \E l \in LoopIds : PollWake(l)
    \/ \E l \in LoopIds : PollGotDevices(l)
    \/ \E l \in LoopIds : PollGotDevice(l)
SpecFind == SpecFindInit /\ [][SpecFindNext]_vars

(* ---- BLEScanner.autoConnectToTarget and disconnect: the steps ---- *)
AutoConnectToTarget ==
    /\ AllSettled
    /\ CallFromOutside
    /\ Commit(FirstFreeTask, autoConnectToTarget(NewSession(Machine(FirstFreeTask))))

ScannerDisconnect ==
    /\ AllSettled
    /\ CallFromOutside
    /\ Commit(FirstFreeTask, scannerDisconnect(Machine(FirstFreeTask)))

ScannerDisconnectSettled(t) ==
    /\ At(t, "scanner.disconnect", "await_disconnect")
    /\ \E outcome \in DisconnectOutcomes : Resume(t, scannerDisconnectSettled(Machine(t), outcome))

FindTargetDeviceDone(t) ==
    /\ At(t, "scanner.findTargetDevice", "after_findDevice")
    /\ Returned(t)
    /\ Resume(t, scannerFindTargetDeviceDone(Machine(t)))

AutoAfterFind(t) ==
    /\ At(t, "scanner.autoConnectToTarget", "after_findTargetDevice")
    /\ Returned(t)
    /\ Resume(t, autoAfterFind(Machine(t)))

AutoSlept(t) ==
    /\ At(t, "scanner.autoConnectToTarget", "retry_sleep")
    /\ Resume(t, autoSlept(Machine(t)))

AutoAfterConnect(t) ==
    /\ At(t, "scanner.autoConnectToTarget", "after_connectAndSetup")
    /\ Returned(t)
    /\ Resume(t, autoAfterConnect(Machine(t)))

ConnectResume(t) ==
    /\ tasks[t] # <<>>
    /\ tasks[t][Len(tasks[t])].fn = "scanner.connectAndSetup"
    /\ \E outcome \in ConnectOutcomes, characteristics \in CharacteristicLists :
           /\ outcome = "listener_error" => tasks[t][Len(tasks[t])].pc = "await_characteristic"
           /\ Resume(t, connectResume(Machine(t), outcome, characteristics))

ConnectAndSetup ==
    /\ AllSettled
    /\ CallFromOutside
    /\ \E address \in Addresses :
           Commit(FirstFreeTask, connectAndSetup(NewSession(Machine(FirstFreeTask)),
                                                 DeviceOf(address)))

\* the device the scanner listens to emits 'disconnect'
DeviceDisconnects ==
    /\ callsLeft > 0
    /\ \E i \in 1..Len(scan.deviceListeners) : scan.deviceListeners[i].eventName = "disconnect"
    /\ LET m == disconnectListener(Detached, now)
       IN  /\ scan' = m.scan
           /\ hist' = m.hist
           /\ dEmitted' = m.emitted
    /\ callsLeft' = callsLeft - 1
    /\ UNCHANGED <<disc, conn, bt, tasks, loops, lastReturn, now>>
    /\ UNCHANGED <<codecVars, dhVars, emVars, tzOffset, horizon, radio>>

(* ---- BLEScanner.startScan and stopScan: the steps ---- *)
StartScan ==
    /\ CallFromOutside
    /\ \E destroyed \in DestroyOutcomes :
           Commit(FirstFreeTask, startScan(WithDestroy(Machine(FirstFreeTask), destroyed)))

StartScanAfterInitialize(t) ==
    /\ At(t, "scanner.startScan", "after_initialize")
    /\ Returned(t)
    /\ Resume(t, startScanAfterInitialize(Machine(t)))

StartScanAfterStartDiscovery(t) ==
    /\ At(t, "scanner.startScan", "after_startDiscovery")
    /\ Returned(t)
    /\ \E destroyed \in DestroyOutcomes :
           Resume(t, startScanAfterStartDiscovery(WithDestroy(Machine(t), destroyed), t))

ScanTimerFires(t) ==
    /\ \E timer \in scan.scanTimers :
          /\ timer.task = t
          /\ Resume(t, scanTimerFired(Machine(t), timer))

StartScanResolve(t) ==
    /\ At(t, "scanner.startScan", "timer_after_stopScan")
    /\ Returned(t)
    /\ Resume(t, startScanResolve(Machine(t)))

StartScanAfterCleanup(t) ==
    /\ At(t, "scanner.startScan", "catch_after_cleanup")
    /\ Returned(t)
    /\ Resume(t, startScanAfterCleanup(Machine(t)))

StopScan ==
    /\ CallFromOutside
    /\ Commit(FirstFreeTask, scannerStopScan(Machine(FirstFreeTask)))

ScannerStopScanDone(t) ==
    /\ At(t, "scanner.stopScan", "after_stopDiscovery")
    /\ Returned(t)
    /\ Resume(t, scannerStopScanDone(Machine(t)))

ScannerCleanupAfterStopScan(t) ==
    /\ At(t, "scanner.cleanup", "after_stopScan")
    /\ Returned(t)
    /\ Resume(t, scannerCleanupAfterStopScan(Machine(t)))

\* the buffers characteristics deliver: too short, exact, too long
NotifyBuffers ==
    BadLengthBuffers \cup {ValidTestFrame, OutOfRangeTestFrame, ValidTestFrame \o <<255>>}

\* a characteristic the scanner listens to delivers a buffer
ValueChanged ==
    /\ callsLeft > 0
    /\ \E i \in 1..Len(scan.deviceListeners) : scan.deviceListeners[i].eventName = "valuechanged"
    /\ \E buffer \in NotifyBuffers :
          LET m == valueChangedListener(Detached, buffer)
          IN  /\ scan' = m.scan
              /\ hist' = m.hist
              /\ dEmitted' = m.emitted
    /\ callsLeft' = callsLeft - 1
    /\ UNCHANGED <<disc, conn, bt, tasks, loops, lastReturn, now>>
    /\ UNCHANGED <<codecVars, dhVars, emVars, tzOffset, horizon, radio>>

\* a reconnect timeout that is due fires
ReconnectTimerFires ==
    /\ FreeTasks # {}
    /\ \E timer \in scan.timers :
          /\ timer.due <= now
          /\ Commit(FirstFreeTask, reconnectTimerFired(Machine(FirstFreeTask), timer))
    /\ UNCHANGED <<now, callsLeft, OtherThanDiscovery>>

\* the instants the clock visits while reconnect timeouts run
ReconnectInstants == {k * (RETRY_DELAY \div 2) : k \in 0..ReconnectHalves}

\* time passes, never beyond a timeout that is due
TimePasses ==
    /\ \E t \in ReconnectInstants :
          /\ t > now
          /\ \A timer \in scan.timers : t <= timer.due
          /\ now' = t
    /\ dEmitted' = <<>>
    /\ UNCHANGED <<disc, conn, scan, bt, tasks, loops, lastReturn, hist, callsLeft>>
    /\ UNCHANGED <<codecVars, dhVars, emVars, tzOffset, horizon, radio>>

\* BLEScanner connected to a target that disconnects: the reconnect timeout, the
\* autoConnectToTarget it starts (no adapter is set: every search fails), cleanup
SpecReconnectInit ==
    /\ CodecIdle /\ DHInit /\ EMInit /\ DiscInit
    /\ tzOffset = 0
    /\ horizon = 0
    /\ radio = QuietRadio
    /\ callsLeft = ReconnectCalls
SpecReconnectNext ==
    \/ ConnectAndSetup
    \/ ScannerCleanup
    \/ DeviceDisconnects
    \/ ReconnectTimerFires
    \/ TimePasses
    \/ \E t \in TaskIds : ConnectResume(t)
    \/ \E t \in TaskIds : FindTargetDeviceDone(t)
    \/ \E t \in TaskIds : AutoAfterFind(t)
    \/ \E t \in TaskIds : AutoSlept(t)
    \/ \E t \in TaskIds : FindAfterStart(t)
    \/ \E t \in TaskIds : FindAfterStop(t)
    \/ \E t \in TaskIds : ScannerDisconnectSettled(t)
    \/ \E t \in TaskIds : ScannerCleanupAfterDisconnect(t)
    \/ \E t \in TaskIds : ScannerCleanupAfterDiscovery(t)
SpecReconnect == SpecReconnectInit /\ [][SpecReconnectNext]_vars

\* BLEScanner connected to a target whose characteristics deliver buffers
SpecNotifyInit ==
    /\ CodecIdle /\ DHInit /\ EMInit /\ DiscInit
    /\ tzOffset = 0
    /\ horizon = 0
    /\ radio = QuietRadio
    /\ callsLeft = NotifyCalls
SpecNotifyNext ==
    \/ ConnectAndSetup
    \/ ValueChanged
    \/ \E t \in TaskIds : ConnectResume(t)
SpecNotify == SpecNotifyInit /\ [][SpecNotifyNext]_vars

\* BLEScanner under connectAndSetup and disconnect calls
SpecLinkInit ==
    /\ CodecIdle /\ DHInit /\ EMInit /\ DiscInit
    /\ tzOffset = 0
    /\ horizon = 0
    /\ radio = QuietRadio
    /\ callsLeft = LinkCalls
SpecLinkNext ==
    \/ ConnectAndSetup
    \/ ScannerDisconnect
    \/ \E t \in TaskIds : ConnectResume(t)
    \/ \E t \in TaskIds : ScannerDisconnectSettled(t)
SpecLink == SpecLinkInit /\ [][SpecLinkNext]_vars

\* BLEScanner under autoConnectToTarget
SpecAutoInit ==
    /\ CodecIdle /\ DHInit /\ EMInit /\ DiscInit
    /\ tzOffset = 0
    /\ horizon = 0
    /\ radio \in {r \in Radios : r["AA:AA"].rssi = [dBm |-> -70]}
    /\ callsLeft = AutoCalls
SpecAutoNext ==
    \/ SetAdapter
    \/ AutoConnectToTarget
    \/ \E t \in TaskIds : FindTargetDeviceDone(t)
    \/ \E t \in TaskIds : AutoAfterFind(t)
    \/ \E t \in TaskIds : AutoSlept(t)
    \/ \E t \in TaskIds : AutoAfterConnect(t)
    \/ \E t \in TaskIds : ConnectResume(t)
    \/ \E t \in TaskIds : FindAfterStart(t)
    \/ \E t \in TaskIds : FindGotDevices(t)
    \/ \E t \in TaskIds : FindGotCachedDevice(t)
    \/ \E t \in TaskIds : FindFetched(t)
    \/ \E t \in TaskIds : FindSlept(t)
    \/ \E t \in TaskIds : FindAfterStop(t)
    \/ \E t \in TaskIds : EnsureGotIsDiscovering(t)
    \/ \E t \in TaskIds : EnsureStopSettled(t)
    \/ \E t \in TaskIds : EnsureSlept(t)
    \/ \E t \in TaskIds : StartAfterEnsure(t)
    \/ \E t \in TaskIds : StartSettled(t)
    \/ \E t \in TaskIds : StopSettled(t)
    \/ \E l \in LoopIds : PollWake(l)
    \/ \E l \in LoopIds : PollGotDevices(l)
    \/ \E l \in LoopIds : PollGotDevice(l)
SpecAuto == SpecAutoInit /\ [][SpecAutoNext]_vars

DiscIdle == DiscInit /\ tzOffset = 0 /\ horizon = 0 /\ callsLeft = 0 /\ radio = QuietRadio

\* BLEDiscovery under concurrent calls, within one second of the clock
SpecDiscInit ==
    /\ CodecIdle /\ DHInit /\ EMInit /\ DiscInit
    /\ tzOffset \in TzOffsets
    /\ radio = QuietRadio
    /\ horizon = 0
    /\ callsLeft = MaxCalls
DiscoverySteps ==
    \/ SetAdapter
    \/ StartDiscovery
    \/ StopDiscovery
    \/ Cleanup
    \/ \E t \in TaskIds : EnsureGotIsDiscovering(t)
    \/ \E t \in TaskIds : EnsureStopSettled(t)
    \/ \E t \in TaskIds : EnsureSlept(t)
    \/ \E t \in TaskIds : StartAfterEnsure(t)
    \/ \E t \in TaskIds : StartSettled(t)
    \/ \E t \in TaskIds : StopSettled(t)
    \/ \E t \in TaskIds : CleanupAfterStop(t)
    \/ \E l \in LoopIds : PollWake(l)
    \/ \E l \in LoopIds : PollGotDevices(l)
    \/ \E l \in LoopIds : PollGotDevice(l)
SpecDiscNext == DiscoverySteps
SpecDisc == SpecDiscInit /\ [][SpecDiscNext]_vars

\* BLEScanner.startScan with stopScan and cleanup called from outside while it runs
SpecStartScanInit ==
    /\ CodecIdle /\ DHInit /\ EMInit /\ DiscInit
    /\ tzOffset = 0
    /\ horizon = 0
    /\ radio = QuietRadio
    /\ callsLeft = StartScanCalls
\* what task t does next by itself: the continuation of its innermost call
StartScanTaskStep(t) ==
    \/ ConnAfterReset(t)
    \/ ConnGotDefaultAdapter(t)
    \/ ConnRetrySlept(t)
    \/ ConnGotIsPowered(t)
    \/ ConnSetPoweredSettled(t)
    \/ ConnPowerSlept(t)
    \/ ResetGotIsDiscovering(t)
    \/ ResetStopSettled(t)
    \/ ResetSettled(t)
    \/ ConnCleanupDone(t)
    \/ ScannerInitializeAfterConnection(t)
    \/ ScannerInitializeAfterCleanup(t)
    \/ ScannerCleanupAfterStopScan(t)
    \/ ScannerCleanupAfterDisconnect(t)
    \/ ScannerCleanupAfterDiscovery(t)
    \/ ScannerCleanupAfterConnection(t)
    \/ ScannerStopScanDone(t)
    \/ EnsureGotIsDiscovering(t)
    \/ EnsureStopSettled(t)
    \/ EnsureSlept(t)
    \/ StartAfterEnsure(t)
    \/ StartSettled(t)
    \/ StopSettled(t)
    \/ CleanupAfterStop(t)
    \/ StartScanAfterInitialize(t)
    \/ StartScanAfterStartDiscovery(t)
    \/ ScanTimerFires(t)
    \/ StartScanResolve(t)
    \/ StartScanAfterCleanup(t)
StartScanLoopStep(l) ==
    \/ PollWake(l)
    \/ PollGotDevices(l)
    \/ PollGotDevice(l)
\* the caller calls startScan while nothing else runs or while a scan runs
StartScanCall ==
    /\ AllSettled \/ scan.isScanning
    /\ StartScan
SpecStartScanNext ==
    \/ StartScanCall
    \/ StopScan
    \/ ScannerCleanup
    \/ \E t \in TaskIds : StartScanTaskStep(t)
    \/ \E l \in LoopIds : StartScanLoopStep(l)
SpecStartScan == SpecStartScanInit /\ [][SpecStartScanNext]_vars
\* every continuation that is ready runs in the end, and so does every timer and
\* every poll loop: the event loop starves nothing; calls from outside may stop
FairStartScan ==
    /\ SpecStartScan
    /\ \A t \in TaskIds : WF_vars(StartScanTaskStep(t))
    /\ \A l \in LoopIds : WF_vars(StartScanLoopStep(l))

\* BLEScanner sessions torn down by cleanup(): SpecReconnect with cleanup run to its end
SpecTeardownInit == SpecReconnectInit
SpecTeardownNext ==
    \/ SpecReconnectNext
    \/ \E t \in TaskIds : ResetSettled(t)
    \/ \E t \in TaskIds : ConnCleanupDone(t)
    \/ \E t \in TaskIds : ScannerCleanupAfterConnection(t)
SpecTeardown == SpecTeardownInit /\ [][SpecTeardownNext]_vars

\* BLEDiscovery over CacheEpochs lifetimes of a cache entry
SpecCacheInit ==
    /\ CodecIdle /\ DHInit /\ EMInit /\ DiscInit
    /\ tzOffset \in TzOffsets
    /\ radio = QuietRadio
    /\ horizon = CacheEpochs * MAX_AGE + TickMs
    /\ callsLeft = TimedCalls
SpecCacheNext ==
    \/ DiscoverySteps
    \/ CacheSweep
    \/ AdvanceTime
SpecCache == SpecCacheInit /\ [][SpecCacheNext]_vars

SpecEMInit == CodecIdle /\ DHInit /\ EMInit /\ DiscIdle
SpecEMNext ==
    \/ \E d \in Devices, e \in DeviceEvents, l \in Callbacks : AddDeviceListener(d, e, l)
    \/ \E d \in Devices, e \in DeviceEvents : RemoveDeviceListener(d, e)
    \/ \E d \in Devices : RemoveAllDeviceListeners(d)
    \/ \E c \in Characteristics, e \in CharacteristicEvents, l \in Callbacks :
          AddCharacteristicListener(c, e, l)
    \/ \E c \in Characteristics, e \in CharacteristicEvents : RemoveCharacteristicListener(c, e)
    \/ \E c \in Characteristics : RemoveAllCharacteristicListeners(c)
    \/ EmCleanup
SpecEM == SpecEMInit /\ [][SpecEMNext]_vars

\* the registry used through the first handle of each source, with the sources'
\* on / removeListener failing at will
SpecFaultyInit == SpecEMInit
SpecFaultyNext ==
    \/ \E d \in {x \in Devices : x.obj = 1}, e \in DeviceEvents, l \in Callbacks :
          AddDeviceListenerFaulty(d, e, l)
    \/ \E d \in {x \in Devices : x.obj = 1}, e \in DeviceEvents :
          RemoveDeviceListenerFaulty(d, e)
    \/ \E d \in {x \in Devices : x.obj = 1} : RemoveAllDeviceListenersFaulty(d)
    \/ \E c \in {x \in Characteristics : x.obj = 1}, e \in CharacteristicEvents,
          l \in Callbacks :
          AddCharacteristicListenerFaulty(c, e, l)
    \/ \E c \in {x \in Characteristics : x.obj = 1}, e \in CharacteristicEvents :
          RemoveCharacteristicListenerFaulty(c, e)
    \/ \E c \in {x \in Characteristics : x.obj = 1} : RemoveAllCharacteristicListenersFaulty(c)
    \/ EmCleanupFaulty
SpecFaulty == SpecFaultyInit /\ [][SpecFaultyNext]_vars

\* notifications delivered to the wrapped callbacks of the first handle of each
\* source, with and without a listener for the manager's own 'error' event
SpecWrapInit == SpecEMInit
SpecWrapNext ==
    \/ \E d \in {x \in Devices : x.obj = 1}, e \in DeviceEvents, l \in Callbacks :
          AddDeviceListener(d, e, l)
    \/ \E c \in {x \in Characteristics : x.obj = 1}, e \in CharacteristicEvents,
          l \in Callbacks :
          AddCharacteristicListener(c, e, l)
    \/ EmCleanup
    \/ EmOnError
    \/ EmOffError
    \/ \E attached \in Attachments : Notify(attached)
SpecWrap == SpecWrapInit /\ [][SpecWrapNext]_vars

(***************************************************************************)
(* Specifications of the decoder and of BLEDataHandler                     *)
(***************************************************************************)
SpecCodecInit == CodecInit /\ DHInit /\ EMInit /\ DiscIdle
SpecCodecNext == CodecDecode \/ CodecNextBuffer
SpecCodec == SpecCodecInit /\ [][SpecCodecNext]_vars

SpecDHInit == CodecIdle /\ DHInit /\ EMInit /\ DiscIdle
SpecDHNext == HandleIncomingData
SpecDH == SpecDHInit /\ [][SpecDHNext]_vars

(***************************************************************************)
(* Claims about the frame decoder and BLEDataHandler                       *)
(***************************************************************************)
\* the sequence number a frame carries: big-endian at offset 0
SeqOf(buffer) == 256 * buffer[1] + buffer[2]

SequenceErrors(events) == SelectSeq(events, LAMBDA e : e.name = "data:sequence_error")
EventNamesOf(events) == {events[i].name : i \in 1..Len(events)}

\* C1: when two well-formed frames p then c are handled one after the other, a
\* data:sequence_error event is emitted exactly once, carrying
\* expected = (p.seq + 1) mod 65536 and received = c.seq, if c.seq differs from
\* that expected value, and is not emitted otherwise.
C1_SequenceErrorIffGap ==
    (dhCalls >= 2 /\ Len(dhPrevBuffer) = FrameLen /\ Len(dhBuffer) = FrameLen) =>
        LET expected == (SeqOf(dhPrevBuffer) + 1) % 65536
            received == SeqOf(dhBuffer)
        IN  SequenceErrors(dhEmitted) =
                IF received # expected
                THEN <<[name |-> "data:sequence_error",
                        expected |-> expected, received |-> received]>>
                ELSE <<>>

\* two's complement reading of 16 bits
Signed16(u) == IF u >= 32768 THEN u - 65536 ELSE u

\* the record the field table prescribes for a 20-byte buffer
TableDecode(b) ==
    [numero_progressivo |-> b[1] * 256 + b[2],
     asse_x |-> Signed16(b[3] + b[4] * 256),
     asse_y |-> Signed16(b[5] + b[6] * 256),
     asse_z |-> Signed16(b[7] + b[8] * 256),
     pressione_tallone |-> b[9] + b[10] * 256,
     pressione_primo_metatarso |-> b[11] + b[12] * 256,
     pressione_quinto_metatarso |-> b[13] + b[14] * 256,
     segnale_uno |-> b[15] + b[16] * 256,
     segnale_due |-> b[17] + b[18] * 256]

C10_BadLengthRejected ==
    [][\A buffer \in HandlerBuffers :
          (Len(buffer) # FrameLen /\ handleIncomingData(buffer)) =>
              /\ dhOutcome'.kind = "threw"
              /\ dhOutcome'.error = "BLEError"
              /\ "data:error" \in EventNamesOf(dhEmitted')
              /\ "data:decoded" \notin EventNamesOf(dhEmitted')
              /\ dhWrites'.data = 0
              /\ lastProcessedData' = lastProcessedData]_vars

\* C11: for every valid 20-byte buffer, handleIncomingData emits data:received
\* first, then data:decoded with the decoded record, never data:error, returns
\* the record without throwing and records it as lastProcessedData.
C11_ValidFrameDecoded ==
    [][\A buffer \in HandlerBuffers :
          (/\ Len(buffer) = FrameLen
           /\ validateDecodedData(parseBuffer(buffer))
           /\ handleIncomingData(buffer)) =>
              /\ dhEmitted'[1].name = "data:received"
              /\ dhEmitted'[Len(dhEmitted')] =
                     [name |-> "data:decoded", data |-> parseBuffer(buffer)]
              /\ "data:error" \notin EventNamesOf(dhEmitted')
              /\ dhOutcome' =
                     [kind |-> "returned", error |-> "none", value |-> parseBuffer(buffer)]
              /\ lastProcessedData' = parseBuffer(buffer)]_vars

\* C12: handleIncomingData applied to the frame 00 01, 00 02, ..., 00 0A returns
\* the record with numero_progressivo = 1, asse_x = 2, asse_y = 3, asse_z = 4,
\* pressione_tallone = 5, pressione_primo_metatarso = 6,
\* pressione_quinto_metatarso = 7, segnale_uno = 8, segnale_due = 9.
C12_TestFrameDecoded ==
    [][handleIncomingData(ValidTestFrame) =>
          /\ dhOutcome'.kind = "returned"
          /\ dhOutcome'.value =
                 [numero_progressivo |-> 1, asse_x |-> 2, asse_y |-> 3, asse_z |-> 4,
                  pressione_tallone |-> 5, pressione_primo_metatarso |-> 6,
                  pressione_quinto_metatarso |-> 7, segnale_uno |-> 8,
                  segnale_due |-> 9]]_vars

\* C13: handleIncomingData throws a BLEError and emits data:error for the frame
\* FF FF 80 00 7F FF 80 01 followed by twelve zero bytes.
C13_OutOfRangeRejected ==
    [][handleIncomingData(OutOfRangeTestFrame) =>
          /\ dhOutcome'.kind = "threw"
          /\ dhOutcome'.error = "BLEError"
          /\ "data:error" \in EventNamesOf(dhEmitted')]_vars

\* a buffer decodeData accepts: long enough and every field within its range
AcceptedFrame(buffer) == validateBuffer(buffer) /\ validateDecodedData(parseBuffer(buffer))

\* C23: each buffer handled makes exactly one call on the log sink: one
\* writeData and no writeError for a valid frame, one writeError and no
\* writeData for a rejected one.
C23_OneLogCallPerBuffer ==
    [][\A buffer \in HandlerBuffers :
          handleIncomingData(buffer) =>
              dhWrites' = IF AcceptedFrame(buffer)
                          THEN [data |-> 1, error |-> 0]
                          ELSE [data |-> 0, error |-> 1]]_vars

\* C25: a valid frame that follows a valid frame and does not carry the expected
\* next sequence number is still returned, written to the data sink and stored
\* as lastProcessedData.
C25_GapIsNotFatal ==
    [][\A buffer \in HandlerBuffers :
          (/\ dhCalls > 0
           /\ AcceptedFrame(dhBuffer)
           /\ AcceptedFrame(buffer)
           /\ SeqOf(buffer) # (SeqOf(dhBuffer) + 1) % 65536
           /\ handleIncomingData(buffer)) =>
              /\ dhOutcome' =
                     [kind |-> "returned", error |-> "none", value |-> parseBuffer(buffer)]
              /\ dhWrites'.data = 1
              /\ lastProcessedData' = parseBuffer(buffer)]_vars

(***************************************************************************)
(* Claims about the listener registry                                      *)
(***************************************************************************)
\* the callbacks attached, on any object of the target identity, for an event
AttachedFor(address, eventName) ==
    {a \in listenersOn : a.eventName = eventName /\ a.source \in Devices
                         /\ a.source.address = address}

\* C2: after any sequence of add/remove operations there is at most one
\* registration per (target identity, event name) key, and exactly one callback
\* of the registry is attached to the underlying source for that key: the one
\* registered last, every earlier one having been detached.
C2_OneCallbackPerKey ==
    \A address \in Addresses, eventName \in DeviceEvents :
        LET key == generateListenerKey(address, eventName)
        IN  key \in DOMAIN em.deviceListeners =>
                AttachedFor(address, eventName) =
                    {[source |-> em.deviceListeners[key].device,
                      eventName |-> eventName,
                      fn |-> em.deviceListeners[key].wrappedListener]}

\* C3: removeAllDeviceListeners(target) leaves no registration whose target
\* identity is the target's, detaches each of their callbacks from the source it
\* was attached to, and leaves the registrations and the attached callbacks of
\* every other target unchanged.
C3_RemoveAllFrame ==
    [][\A device \in Devices :
          RemoveAllDeviceListeners(device) =>
              /\ \A k \in DOMAIN em'.deviceListeners :
                    em'.deviceListeners[k].device.address # device.address
              /\ \A k \in DOMAIN em.deviceListeners :
                    em.deviceListeners[k].device.address = device.address =>
                        [source |-> em.deviceListeners[k].device,
                         eventName |-> em.deviceListeners[k].eventName,
                         fn |-> em.deviceListeners[k].wrappedListener] \notin listenersOn'
              /\ \A k \in DOMAIN em.deviceListeners :
                    em.deviceListeners[k].device.address # device.address =>
                        /\ k \in DOMAIN em'.deviceListeners
                        /\ em'.deviceListeners[k] = em.deviceListeners[k]
              /\ \A a \in listenersOn :
                    (a.source \in Devices /\ a.source.address # device.address) =>
                        a \in listenersOn'
              /\ em'.characteristicListeners = em.characteristicListeners]_vars


\* C21: whatever a callback registered through the registry does (returns,
\* throws, rejects), the wrapper called by the notifying source neither throws
\* synchronously nor returns a promise that rejects, with or without a listener
\* for the registry's 'error' event.
C21_WrapperContainsFailures ==
    emDelivery # NoDelivery =>
        /\ ~emDelivery.result.threwSync
        /\ emDelivery.result.promise = "fulfilled"

(***************************************************************************)
(* Claims about BLEDiscovery                                               *)
(***************************************************************************)
Age(a) == now - disc.discoveredDevices[a].writtenAt
Cached == DOMAIN disc.discoveredDevices

\* C4: a cached device whose age since its last write has reached MAX_AGE is left
\* out of getDiscoveredDevices(false) and still returned by
\* getDiscoveredDevices(true); a sweep removes exactly the entries whose age has
\* reached MAX_AGE, and never a younger one.
C4_CacheTtl ==
    [][ /\ \A a \in DOMAIN disc'.discoveredDevices :
              now' - disc'.discoveredDevices[a].writtenAt >= MAX_AGE =>
                  /\ a \notin getDiscoveredDevices(disc', FALSE, now', tzOffset')
                  /\ a \in getDiscoveredDevices(disc', TRUE, now', tzOffset')
        /\ CacheSweep =>
              \A a \in Cached : (a \in DOMAIN disc'.discoveredDevices) <=> (Age(a) < MAX_AGE)
      ]_vars

\* C5: startDiscovery called while isDiscovering is true returns true,
\* suspends at no adapter call, and leaves the object (cache included), the poll
\* loops and the event stream as they were.
C5_StartWhileActive ==
    [][ (StartDiscovery /\ disc.isDiscovering) =>
            /\ lastReturn' = [fn |-> "startDiscovery", threw |-> FALSE, value |-> "true"]
            /\ tasks' = tasks
            /\ disc' = disc
            /\ loops' = loops
            /\ dEmitted' = <<>>
      ]_vars

\* C6: stopDiscovery called while isDiscovering is false emits nothing, suspends
\* at no adapter call and returns without throwing; there are never more
\* discovery:stopped events than stopDiscovery calls that found isDiscovering
\* true, nor more of those than successful starts.
C6_StopWhileInactive ==
    [][ /\ (StopDiscovery /\ ~disc.isDiscovering) =>
              /\ lastReturn' = [fn |-> "stopDiscovery", threw |-> FALSE, value |-> "undefined"]
              /\ tasks' = tasks
              /\ disc' = disc
              /\ dEmitted' = <<>>
              /\ hist'.stopped = hist.stopped
        /\ hist'.stopped <= hist'.activeStops
        /\ hist'.activeStops <= hist'.started
        /\ (lastReturn' # Null /\ lastReturn'.fn = "stopDiscovery") => ~lastReturn'.threw
      ]_vars

\* C6 witness: one discovery was started and stopped, and a further stopDiscovery
\* call found no discovery active
C6_Witness ==
    /\ hist.started = 1
    /\ hist.stopped = 1
    /\ hist.idleStops = 1
    /\ ~disc.isDiscovering
    /\ lastReturn = [fn |-> "stopDiscovery", threw |-> FALSE, value |-> "undefined"]

\* C8: a cleanup call made while another is in progress changes nothing and
\* returns; no cleanup call throws; and when a cleanup completes (it emits
\* discovery:cleanup) the sweep timer is cancelled, isDiscovering is false, the
\* cache is empty and the adapter is null.
C8_CleanupGuarded ==
    [][ /\ (Cleanup /\ disc.cleanupInProgress) =>
              /\ lastReturn' = [fn |-> "cleanup", threw |-> FALSE, value |-> "undefined"]
              /\ tasks' = tasks
              /\ disc' = disc
              /\ dEmitted' = <<>>
        /\ (lastReturn' # Null /\ lastReturn'.fn = "cleanup") => ~lastReturn'.threw
        /\ (\E i \in 1..Len(dEmitted') : dEmitted'[i] = "discovery:cleanup") =>
              /\ disc'.cacheCleanupInterval = Null
              /\ ~disc'.isDiscovering
              /\ disc'.discoveredDevices = EmptyCache
              /\ disc'.adapter = Null
      ]_vars


\* C30: when adapter.devices() gives the poll loop an address whose cache entry
\* is still within the TTL, the loop rewrites the entry's timestamp to the
\* present and emits discovery:device_updated.
C30_SeenAgainRefreshes ==
    [][\A l \in LoopIds, devices \in DevicesOutcomes :
          (/\ loops[l].pc = "devices"
           /\ CommitDetached(pollDevices(Detached, l, devices, now, tzOffset))) =>
              \A i \in 1..Len(devices) :
                  isCacheValid(disc, devices[i], now, tzOffset) =>
                      /\ disc'.discoveredDevices[devices[i]].writtenAt = now
                      /\ \E k \in 1..Len(dEmitted') :
                             dEmitted'[k] = "discovery:device_updated"]_vars

\* a poll loop begins an iteration in this step: it goes to adapter.devices()
PollIterationStarts ==
    \E l \in LoopIds :
        /\ loops'[l] # NoLoop
        /\ loops'[l].pc = "devices"
        /\ (loops[l] = NoLoop \/ loops[l].pc # "devices")

\* C24: once a stopDiscovery call has cleared isDiscovering, no poll loop begins
\* an iteration (no adapter.devices() call) until startDiscovery is called again.
C24_NoPollAfterStop ==
    [][hist'.stopBegun => ~PollIterationStarts]_vars

(***************************************************************************)
(* Claims about findDevice                                                 *)
(***************************************************************************)
\* findDevice has returned to its caller, and no other call has started since
FindReturned(stacks, result) ==
    /\ \A t \in TaskIds : stacks[t] = <<>>
    /\ result # Null
    /\ result.fn = "findDevice"

\* C17: whenever findDevice returns, with a device or with null, discovery has
\* been stopped: isDiscovering is false, the adapter's stop was requested for
\* every start, and the background poll loop starts no further iteration.
C17_FindStopsDiscovery ==
    [][/\ FindReturned(tasks', lastReturn') =>
             /\ ~disc'.isDiscovering
             /\ hist'.activeStops = hist'.started
       /\ FindReturned(tasks, lastReturn) =>
             \A l \in LoopIds :
                 loops[l].pc = "sleep" => loops'[l].pc \in {"sleep", "none"}]_vars

\* C18: findDevice returns a device only if its name equals criteria.name and,
\* when criteria.minRssi is given, its observed signal strength is at least
\* minRssi; a device whose signal strength is below the threshold or
\* unavailable is never returned.
C18_FindRespectsCriteria ==
    [][\A t \in TaskIds :
          (/\ tasks[t] # <<>>
           /\ tasks[t][1].fn = "findDevice"
           /\ tasks'[t] = <<>>
           /\ lastReturn'.value \in Addresses) =>
              LET criteria == tasks[t][1].criteria
                  device == radio[lastReturn'.value]
              IN  /\ device.name = criteria.name
                  /\ criteria.minRssi # 0 =>
                         /\ device.rssi # Null
                         /\ device.rssi.dBm >= criteria.minRssi]_vars

(***************************************************************************)
(* Claims about BLEConnection                                              *)
(***************************************************************************)
StateEdges ==
    {<<"disconnected", "initializing">>, <<"initializing", "ready">>,
     <<"ready", "resetting">>, <<"error", "resetting">>,
     <<"resetting", "disconnected">>} \cup
    {<<s, "error">> : s \in {"disconnected", "initializing", "ready", "resetting", "error"}}

\* C14: over any sequence of initialize(), resetBluetooth() and cleanup() calls
\* and any outcome of the adapter calls, currentState changes only along the
\* edges disconnected->initializing, initializing->ready, ready->resetting,
\* error->resetting, resetting->disconnected and (any state)->error.
C14_StateEdges ==
    \A i \in 1..Len(hist.stateChanges) :
        LET c == hist.stateChanges[i]
        IN  c.oldState # c.newState => <<c.oldState, c.newState>> \in StateEdges

\* the results of resetBluetooth calls that have returned and whose caller has not
\* resumed yet
ResetResults ==
    (IF AllSettled /\ lastReturn # Null /\ lastReturn.fn = "resetBluetooth"
     THEN {lastReturn} ELSE {})
    \cup {tasks[t][Len(tasks[t])].ret :
             t \in {u \in TaskIds : /\ tasks[u] # <<>>
                                    /\ tasks[u][Len(tasks[u])].pc = "after_resetBluetooth"
                                    /\ tasks[u][Len(tasks[u])].ret # Null}}

\* C15: resetBluetooth() never throws, and when it returns the adapter and the
\* bluetooth instance are null, isInitialized is false and currentState is
\* 'disconnected', whichever of its sub-steps failed.
C15_ResetLeavesCleanState ==
    \A r \in ResetResults :
        /\ ~r.threw
        /\ conn.adapter = Null
        /\ conn.bluetooth = Null
        /\ ~conn.isInitialized
        /\ conn.currentState = "disconnected"

\* the frames of the initialize() calls in flight
InitializeFrames(stacks) ==
    {stacks[t][1] : t \in {u \in TaskIds : /\ stacks[u] # <<>>
                                            /\ stacks[u][1].fn = "connection.initialize"}}

C20_AutoConnectAttempts ==
    [][\A t \in TaskIds :
          /\ (tasks'[t] # <<>> /\ tasks'[t][1].fn = "scanner.autoConnectToTarget") =>
                 /\ tasks'[t][1].finds <= RETRY_ATTEMPTS
                 /\ tasks'[t][1].sleeps <= RETRY_ATTEMPTS - 1
                 /\ tasks'[t][1].sleeps <= tasks'[t][1].finds
          /\ (/\ tasks[t] # <<>>
              /\ tasks[t][1].fn = "scanner.autoConnectToTarget"
              /\ tasks'[t] # tasks[t]) =>
                 LET call == tasks[t][1]
                     gotDevice == /\ Len(tasks[t]) = 1
                                  /\ call.pc = "after_findTargetDevice"
                                  /\ call.ret.value # "null"
                     gaveUp == /\ Len(tasks[t]) = 1
                               /\ call.pc = "after_findTargetDevice"
                               /\ call.ret.value = "null"
                               /\ call.finds = RETRY_ATTEMPTS
                               /\ call.sleeps = RETRY_ATTEMPTS - 1
                 IN  /\ (gotDevice \/ call.pc = "after_connectAndSetup") =>
                            \/ /\ tasks'[t] # <<>>
                               /\ tasks'[t][1].pc = "after_connectAndSetup"
                               /\ tasks'[t][1].finds = call.finds
                               /\ tasks'[t][1].sleeps = call.sleeps
                            \/ /\ tasks'[t] = <<>>
                               /\ lastReturn'.value = "true"
                     /\ tasks'[t] = <<>> =>
                            /\ lastReturn'.fn = "scanner.autoConnectToTarget"
                            /\ ~lastReturn'.threw
                            /\ (lastReturn'.value = "false") <=> gaveUp
                            /\ (lastReturn'.value = "true") <=>
                                   (call.pc = "after_connectAndSetup")]_vars

\* autoConnectToTarget has given up after its last attempt
C20_Witness ==
    /\ AllSettled
    /\ lastReturn # Null
    /\ lastReturn.fn = "scanner.autoConnectToTarget"
    /\ lastReturn.value = "false"
    /\ hist.started > 0

\* a disconnect() call made on a connected target returns in this step
DisconnectReturns ==
    /\ \A t \in TaskIds : tasks'[t] = <<>>
    /\ \/ /\ AllSettled
          /\ callsLeft' < callsLeft
          /\ scan.targetDevice # Null
          /\ scan.isConnected
          /\ lastReturn'.fn = "scanner.disconnect"
       \/ \E t \in TaskIds : tasks[t] # <<>> /\ tasks[t][1].fn = "scanner.disconnect"

\* C19: when disconnect() is called on a connected target it never throws, and
\* when it returns every listener registered for the target has been removed,
\* the device's disconnect() has been invoked, isConnected is false,
\* targetDevice is null and no reconnect is scheduled.
C19_DisconnectReleasesTarget ==
    [][DisconnectReturns =>
          /\ ~lastReturn'.threw
          /\ hist'.disconnectCalls > 0
          /\ \A i \in 1..Len(scan'.deviceListeners) :
                 ~scannerMatches(scan'.deviceListeners[i], scan.targetDevice)
          /\ ~scan'.isConnected
          /\ scan'.targetDevice = Null
          /\ scan'.reconnectTimer = Null]_vars

\* the callbacks the scanner has attached with device.on / characteristic.on and
\* not yet detached, as (identity, eventName) pairs
SessionAttached ==
    {scan.deviceListeners[i].key : i \in 1..Len(scan.deviceListeners)}

\* the keys BLEEventManager holds a record for
RegistryKeys == DOMAIN em.deviceListeners \cup DOMAIN em.characteristicListeners

\* C22: every callback the acquisition session has attached to a device or a
\* characteristic is recorded in BLEEventManager's registry (so the registry's
\* cleanup() detaches all of them).
C22_SessionListenersInRegistry ==
    \A key \in SessionAttached : generateListenerKey(key[1], key[2]) \in RegistryKeys

\* a 'disconnect' notification is delivered in this step
DisconnectNotified == scan'.timersMade # scan.timersMade

\* a reconnect timeout starts autoConnectToTarget in this step
ReconnectStarted == hist'.reconnectsSince = hist.reconnectsSince + 1

\* C26: a 'disconnect' notification from the target leaves isConnected false and
\* exactly one reconnect timeout pending, due RETRY_DELAY later, in place of any
\* pending one; never more than one timeout is pending; a timeout starts
\* autoConnectToTarget at most once per notification, RETRY_DELAY after the last
\* one and only if cleanup has not run since; and unless cleanup ran, the clock
\* does not pass that instant without autoConnectToTarget having been started.
C26_SingleReconnectTimer ==
    [][/\ DisconnectNotified =>
              /\ ~scan'.isConnected
              /\ scan'.timers = {[id |-> scan'.timersMade, due |-> now + RETRY_DELAY]}
              /\ scan'.reconnectTimer = [timer |-> scan'.timersMade]
       /\ Cardinality(scan'.timers) <= 1
       /\ hist'.reconnectsSince <= 1
       /\ ReconnectStarted =>
              /\ now = hist.lastDisconnectAt + RETRY_DELAY
              /\ ~hist.cleanupSince
       /\ (/\ hist'.lastDisconnectAt >= 0
           /\ ~hist'.cleanupSince
           /\ now' > hist'.lastDisconnectAt + RETRY_DELAY) => hist'.reconnectsSince = 1]_vars

\* C26 witness: a second notification replaced the timeout of the first, and the
\* timeout of the second has started autoConnectToTarget
C26_Witness ==
    /\ scan.timersMade >= 2
    /\ hist.reconnectsSince = 1
    /\ hist.lastDisconnectAt > 0
    /\ scan.timers = {}
    /\ \E t \in TaskIds : tasks[t] # <<>> /\ tasks[t][1].fn = "scanner.autoConnectToTarget"

\* the elements of a sequence
Range(events) == {events[i] : i \in 1..Len(events)}

\* task t is inside the for loop of setupCharacteristics
InCharacteristicLoop(t) ==
    /\ tasks[t] # <<>>
    /\ tasks[t][Len(tasks[t])].fn = "scanner.connectAndSetup"
    /\ tasks[t][Len(tasks[t])].pc \in {"await_characteristic", "await_startNotifications"}

\* C27: once connectAndSetup is going through the characteristics of the
\* service, every step either moves on within the loop or ends the call, a
\* failure is logged, and the call ends only after the last characteristic has
\* been attempted, returning true.
C27_EveryCharacteristicAttempted ==
    [][\A t \in TaskIds :
          (InCharacteristicLoop(t) /\ tasks'[t] # tasks[t]) =>
              /\ \/ InCharacteristicLoop(t)'
                 \/ /\ tasks'[t] = <<>>
                    /\ tasks[t][Len(tasks[t])].pending = <<>>
                    /\ lastReturn' = [fn |-> "scanner.connectAndSetup", threw |-> FALSE,
                                      value |-> "true"]
              /\ \/ "console.error:BLEScanner.setupCharacteristics" \in Range(dEmitted')
                 \/ "scanner:characteristic_configured" \in Range(dEmitted')
                 \/ /\ "scanner:listener_added" \in Range(dEmitted')
                    /\ tasks'[t] # <<>>
                    /\ tasks'[t][Len(tasks'[t])].pc = "await_startNotifications"]_vars

\* C27 witness: connectAndSetup has returned true with the listener of the second
\* characteristic attached and none for the first, whose setup failed
C27_Witness ==
    /\ lastReturn = [fn |-> "scanner.connectAndSetup", threw |-> FALSE, value |-> "true"]
    /\ <<"c2", "valuechanged">> \in SessionAttached
    /\ <<"c1", "valuechanged">> \notin SessionAttached

\* a characteristic delivers a buffer in this step
BufferDelivered == hist'.notified = hist.notified + 1

\* the lines handleError writes, which are not emissions on the event manager
LogLines ==
    {"console.error:BLEScanner.decodeData", "console.error:BLEScanner.valueChanged",
     "console.error:BLEScanner.setupCharacteristics"}
BusEvents(events) == SelectSeq(events, LAMBDA e : e \notin LogLines)
ErrorEvents == {"scanner:error", "scanner:data_error", "error"}

\* C28: each buffer a characteristic delivers results in exactly one emission on
\* the event manager: the data event with the decoded record when decoding
\* succeeds, an error event when it fails; nothing is thrown to the source.
C28_OneEmissionPerBuffer ==
    [][BufferDelivered =>
          /\ Len(BusEvents(dEmitted')) = 1
          /\ IF scan'.lastNotification.data # NoData
             THEN BusEvents(dEmitted')[1] = "scanner:data_received"
             ELSE BusEvents(dEmitted')[1] \in ErrorEvents
          /\ ~scan'.lastNotification.threw]_vars

\* C29: a delivered buffer whose length is not exactly 20 bytes is not decoded
\* into a record, not counted in dataCounter and not written to the log sink.
C29_OnlyTwentyBytesAccepted ==
    [][(BufferDelivered /\ Len(scan'.lastNotification.buffer) # FrameLen) =>
          /\ scan'.lastNotification.data = NoData
          /\ scan'.dataCounter = scan.dataCounter
          /\ scan'.logWrites = scan.logWrites]_vars

StartScanPending(t) == tasks[t] # <<>> /\ tasks[t][1].fn = "scanner.startScan"

\* C31: every call of BLEScanner.startScan resolves in the end, whatever
\* stopScan() and cleanup() calls are made before its scan timer fires
C31_StartScanResolves == \A t \in TaskIds : StartScanPending(t) ~> ~StartScanPending(t)

\* where the BLEScanner.cleanup call of task t stands, "none" without such a call
CleanupPc(stack) ==
    LET frames == {i \in 1..Len(stack) : stack[i].fn = "scanner.cleanup"}
    IN  IF frames = {} THEN "none" ELSE stack[CHOOSE i \in frames : TRUE].pc

\* bleConnection.cleanup() of the BLEScanner.cleanup call of task t is running
ConnectionCleanupRuns(stack) ==
    \E i \in 2..Len(stack) : stack[i].fn = "connection.cleanup" /\ stack[i-1].fn = "scanner.cleanup"

CleanupStepsInOrder(t) ==
    LET pc == CleanupPc(tasks[t])
        next == CleanupPc(tasks'[t])
    IN  /\ next # pc /\ pc = "none" => scan'.scanTimers = {} /\ scan'.timers = {}
        /\ next # pc /\ next = "after_disconnect" => pc \in {"none", "after_stopScan"}
        /\ next # pc /\ next = "after_discoveryCleanup" => pc = "after_disconnect"
        /\ next # pc /\ next = "after_connectionCleanup"
               => pc = "after_discoveryCleanup" /\ Returned(t)

\* C32: BLEScanner.cleanup cancels the timers, stops the scan, disconnects, lets
\* BLEDiscovery.cleanup complete and only then starts BLEConnection.cleanup; when
\* it releases the adapter handle, discovery no longer holds a reference to it
C32_TeardownInOrder ==
    [][\A t \in TaskIds :
          /\ CleanupStepsInOrder(t)
          /\ (/\ ConnectionCleanupRuns(tasks[t])
              /\ tasks'[t] # tasks[t]
              /\ conn.adapter # Null
              /\ conn'.adapter = Null) => disc.adapter = Null]_vars

\* what BLEScanner.cleanup is to leave behind
SessionQuiescent ==
    /\ scan.scanTimers = {}
    /\ scan.timers = {}
    /\ SessionAttached = {}
    /\ scan.targetDevice = Null
    /\ ~scan.isConnected

\* C33: when BLEScanner.cleanup() completes no scan or reconnect timer is pending,
\* no listener of the scanner is attached, targetDevice is null and isConnected
\* is false; and isConnected stays false until the caller opens a session again
C33_QuiescentAfterCleanup ==
    [][/\ ~hist.cleanupDone /\ hist'.cleanupDone => SessionQuiescent'
       /\ hist'.cleanupDone => ~scan'.isConnected]_vars

\* the background poll loops that have not ended
LiveLoops == {l \in LoopIds : loops[l] # NoLoop}

\* C34: at any time at most one background poll loop of the BLEDiscovery instance
\* is live
C34_AtMostOnePollLoop == Cardinality(LiveLoops) <= 1

PollEvents == {"discovery:device_found", "discovery:device_updated"}

\* C35: from the moment stopDiscovery has emitted discovery:stopped, or cleanup()
\* has completed, until startDiscovery is called again, no step of a poll loop
\* emits discovery:device_found or discovery:device_updated or changes the cache
C35_LoopSilentAfterStop ==
    [][hist.quietSince /\ loops' # loops
          => /\ disc'.discoveredDevices = disc.discoveredDevices
             /\ Range(dEmitted') \cap PollEvents = {}]_vars

\* C36: in every state of BLEConnection isReady() is true only if currentState is
\* 'ready', and getAdapter() is not null whenever currentState is 'ready'
C36_ReadyMeansReady ==
    /\ isReady(conn) => conn.currentState = "ready"
    /\ conn.currentState = "ready" => getAdapter(conn) # Null

\* a startDiscovery call returns true to its caller in this step: at once, or
\* after its awaits
StartReturnsTrue ==
    /\ lastReturn' = [fn |-> "startDiscovery", threw |-> FALSE, value |-> "true"]
    /\ \/ StartDiscovery /\ tasks' = tasks
       \/ \E t \in TaskIds : /\ tasks[t] # <<>>
                              /\ tasks[t][Len(tasks[t])].fn = "startDiscovery"
                              /\ tasks'[t] = <<>>

\* C37: whenever startDiscovery returns true, isDiscovering is true and a poll
\* loop is running
C37_TrueMeansDiscovering ==
    [][StartReturnsTrue => /\ disc'.isDiscovering
                           /\ \E l \in LoopIds : loops'[l] # NoLoop]_vars

\* C38: whenever autoConnectToTarget returns true, connectAndSetup returned true
\* for the device that was found, isConnected is true and targetDevice is that
\* device
C38_TrueMeansConnected ==
    [][\A t \in TaskIds :
          (/\ At(t, "scanner.autoConnectToTarget", "after_connectAndSetup")
           /\ tasks'[t] # tasks[t]
           /\ lastReturn' = [fn |-> "scanner.autoConnectToTarget", threw |-> FALSE,
                             value |-> "true"])
          => /\ tasks[t][Len(tasks[t])].ret.value = "true"
             /\ scan'.isConnected
             /\ scan'.targetDevice = DeviceOf(tasks[t][Len(tasks[t])].found)]_vars

\* C39: when connectAndSetup returns false, isConnected is false, targetDevice
\* is null and no listener of the scanner is attached to the device of the attempt
C39_FailedConnectLeavesClean ==
    [][\A t \in TaskIds :
          (/\ tasks[t] # <<>>
           /\ tasks[t][Len(tasks[t])].fn = "scanner.connectAndSetup"
           /\ tasks'[t] # tasks[t]
           /\ Len(tasks'[t]) < Len(tasks[t])
           /\ IF Len(tasks[t]) = 1
              THEN lastReturn' = [fn |-> "scanner.connectAndSetup", threw |-> FALSE,
                                  value |-> "false"]
              ELSE tasks'[t][Len(tasks'[t])].ret.value = "false")
          => /\ ~scan'.isConnected
             /\ scan'.targetDevice = Null
             /\ \A i \in 1..Len(scan'.deviceListeners) :
                    scan'.deviceListeners[i].device # tasks[t][Len(tasks[t])].device]_vars

\* C40: with the sources' on / removeListener free to fail, eventCounts.device
\* and eventCounts.characteristic equal the numbers of device and characteristic
\* registrations, eventCounts.total is their sum, no count is negative, and
\* activeEvents holds exactly the keys of the registrations
C40_CountsMatchRegistry ==
    /\ em.eventCounts.device = Cardinality(DOMAIN em.deviceListeners)
    /\ em.eventCounts.characteristic = Cardinality(DOMAIN em.characteristicListeners)
    /\ em.eventCounts.total = em.eventCounts.device + em.eventCounts.characteristic
    /\ em.eventCounts.device >= 0
    /\ em.eventCounts.characteristic >= 0
    /\ em.activeEvents = RegistryKeys

\* C7: after one initialize, whatever cleanup calls are made on the scanner, one
\* after the other or overlapping, no cleanup call throws to its caller, and the
\* destroy function of every handle made by createBluetooth is invoked at most
\* once.
C7_CleanupTwice ==
    hist.initializeCalls <= 1 =>
        /\ \A h \in 1..Len(bt) : bt[h] <= 1
        /\ (lastReturn # Null /\ lastReturn.fn = "scanner.cleanup") => ~lastReturn.threw

====
